---- MODULE Spec2Model ----
(***************************************************************************)
(* A model of binary-util: the ByteReader / ByteWriter cursor pair of      *)
(* binary-util/src/io.rs, the Reader / Writer implementations of           *)
(* binary-util/src/interfaces.rs, the derive macro of                      *)
(* codegen/src/io/structs.rs and binary-util-derive/src/io/enums.rs, and   *)
(* the encode / decode procedures it generates for a derived struct or     *)
(* enum.                                                                   *)
(*                                                                         *)
(* Integers of the program are bit vectors: a value of width w is a        *)
(* sequence of w bits, least significant first (bit i is element i + 1),   *)
(* so that u32, u64 and u128 keep their width and shifts drop the bits     *)
(* they drop in the program.  A buffer is a sequence of bytes, each a      *)
(* number in 0 .. 255.                                                     *)
(***************************************************************************)
EXTENDS Integers, Sequences, FiniteSets, TLC

VARIABLES
    phase,   \* "writer": a ByteWriter is held; "reader": a ByteReader is held
    wbuf,    \* ByteWriter.buf: the bytes written so far
    nw,      \* the number of write calls made on the writer since it was new or cleared
    rbuf,    \* the bytes the held ByteReader was constructed over
    pos,     \* the number of bytes of rbuf consumed (ByteReader.buf is rbuf from pos on)
    last,    \* the last operation: its name, argument, result and the state before it
    wlog,    \* the values written to the held writer and not yet read back, in order
    rec,     \* derived type: its name, its fields or variants and the value handed to the generated write
    wire,    \* derived type: the result of the generated write and the bytes written
    dec,     \* derived type: the result of the generated read
    gen      \* what the derive macro returned for the struct or enum it was given

vars == <<phase, wbuf, nw, rbuf, pos, last, wlog, rec, wire, dec, gen>>

structVars == <<rec, wire, dec, gen>>

-----------------------------------------------------------------------------
(* Bit vectors *)

Pow2(n) == 2 ^ n

\* The bits of the natural number n (n < 2^31) at width w.
Bits(n, w) == [i \in 1..w |-> IF i <= 31 THEN (n \div Pow2(i - 1)) % 2 ELSE 0]

\* The number a bit vector of at most 31 significant bits stands for.
RECURSIVE NatFrom(_, _)
NatFrom(x, i) == IF i > Len(x) \/ i > 31 THEN 0 ELSE x[i] * Pow2(i - 1) + NatFrom(x, i + 1)

Nat31(x) == NatFrom(x, 1)

\* No bit above bit 30 is set: the value is below 2^31.
Fits31(x) == \A i \in 32..Len(x) : x[i] = 0

Zero(w) == [i \in 1..w |-> 0]

\* x >> k and x << k at the width of x: the bits shifted out are dropped.
Shr(x, k) == [i \in 1..Len(x) |-> IF i + k <= Len(x) THEN x[i + k] ELSE 0]

Shl(x, k) == [i \in 1..Len(x) |-> IF i - k >= 1 THEN x[i - k] ELSE 0]

BitNot(x) == [i \in 1..Len(x) |-> 1 - x[i]]

BitOr(x, y) == [i \in 1..Len(x) |-> IF x[i] = 1 \/ y[i] = 1 THEN 1 ELSE 0]

BitAnd(x, y) == [i \in 1..Len(x) |-> IF x[i] = 1 /\ y[i] = 1 THEN 1 ELSE 0]

BitXor(x, y) == [i \in 1..Len(x) |-> IF x[i] # y[i] THEN 1 ELSE 0]

\* Two's complement negation: the bits above the lowest set bit are flipped.
Neg(x) == [i \in 1..Len(x) |-> IF \E j \in 1..(i - 1) : x[j] = 1 THEN 1 - x[i] ELSE x[i]]

\* `x as uN` for a wider or narrower unsigned target: truncate or zero-extend.
Cast(x, w) == [i \in 1..w |-> IF i <= Len(x) THEN x[i] ELSE 0]

\* `x as iN` from a signed source: truncate or sign-extend.
SCast(x, w) == [i \in 1..w |-> IF i <= Len(x) THEN x[i] ELSE x[Len(x)]]

\* The byte b widened to width w.
OfByte(b, w) == Bits(b, w)

\* The big-endian and little-endian byte sequences of a bit vector whose width is 8n.
ByteAt(x, k) == Nat31([i \in 1..8 |-> x[8 * k + i]])

BytesLE(x) == [k \in 1..(Len(x) \div 8) |-> ByteAt(x, k - 1)]

BytesBE(x) == [k \in 1..(Len(x) \div 8) |-> ByteAt(x, (Len(x) \div 8) - k)]

\* The value a big-endian / little-endian byte sequence stands for, at width 8 * Len(b).
FromBE(b) == [i \in 1..(8 * Len(b)) |-> (b[Len(b) - ((i - 1) \div 8)] \div Pow2((i - 1) % 8)) % 2]

FromLE(b) == [i \in 1..(8 * Len(b)) |-> (b[1 + ((i - 1) \div 8)] \div Pow2((i - 1) % 8)) % 2]

Slice(s, from, n) == [i \in 1..n |-> s[from + i]]

-----------------------------------------------------------------------------
(* Results.  A read returns Ok(value) or Err(kind), or it panics; `pos` is *)
(* the read position it leaves.                                            *)

Ok(v, p) == [kind |-> "ok", err |-> "", val |-> v, pos |-> p]

Err(e, p) == [kind |-> "err", err |-> e, val |-> <<>>, pos |-> p]

Panic(p) == [kind |-> "panic", err |-> "", val |-> <<>>, pos |-> p]

-----------------------------------------------------------------------------
(* ByteReader (io.rs).  buf is the byte sequence the reader was made from  *)
(* and p the number of bytes consumed: Bytes::remaining() is Len(buf) - p  *)
(* and Bytes::chunk() is buf from p on.                                    *)

remaining(buf, p) == Len(buf) - p

\* can_read! with > for >=: a read of exactly the bytes that remain is refused.
can_read_strict(buf, p, size) == remaining(buf, p) > size

can_read(buf, p, size) == remaining(buf, p) >= size

\* self.buf.chunk()[k]: indexing a slice panics when k is not below its length.
chunk_index(buf, p, k) ==
    IF k < remaining(buf, p) THEN Ok(OfByte(buf[p + k + 1], 8), p) ELSE Panic(p)

peek_ahead(buf, p, k) ==
    IF can_read(buf, p, k) THEN chunk_index(buf, p, k) ELSE Err("UnexpectedEof", p)

\* Buf::get_uN / get_uN_le / copy_to_slice over size bytes: the value and the advance.
get_be(buf, p, size) == Ok(FromBE(Slice(buf, p, size)), p + size)

get_le(buf, p, size) == Ok(FromLE(Slice(buf, p, size)), p + size)

read_fn(buf, p, size, le) ==
    IF can_read(buf, p, size)
    THEN IF le THEN get_le(buf, p, size) ELSE get_be(buf, p, size)
    ELSE Err("UnexpectedEof", p)

\* Buf::get_uint(nbytes) and its kin return 8 bytes wide, and panic when nbytes > 8.
get_uint(buf, p, size, le, signed) ==
    IF size > 8 THEN Panic(p)
    ELSE LET raw == IF le THEN FromLE(Slice(buf, p, size)) ELSE FromBE(Slice(buf, p, size))
         IN  Ok(IF signed /\ size > 0 THEN SCast(raw, 64) ELSE Cast(raw, 64), p + size)

read_uint(buf, p, size) ==
    IF can_read(buf, p, size) THEN get_uint(buf, p, size, FALSE, FALSE)
    ELSE Err("UnexpectedEof", p)

read_uint_le(buf, p, size) ==
    IF can_read(buf, p, size) THEN get_uint(buf, p, size, TRUE, FALSE)
    ELSE Err("UnexpectedEof", p)

read_int(buf, p, size) ==
    IF can_read(buf, p, size) THEN get_uint(buf, p, size, FALSE, TRUE)
    ELSE Err("UnexpectedEof", p)

read_int_le(buf, p, size) ==
    IF can_read(buf, p, size) THEN get_uint(buf, p, size, TRUE, TRUE)
    ELSE Err("UnexpectedEof", p)

\* The 24-bit reads with read_uint / read_uint_le in the place of read_int /
\* read_int_le.
read_24_unsigned(buf, p, le, signed) ==
    IF can_read(buf, p, 3)
    THEN LET r == get_uint(buf, p, 3, le, FALSE)
         IN  IF r.kind = "ok" THEN Ok(Cast(r.val, 32), r.pos)
             ELSE IF r.kind = "panic" THEN r ELSE Err("UnexpectedEof", r.pos)
    ELSE Err("UnexpectedEof", p)

\* read_u24, read_u24_le, read_i24, read_i24_le: `num as u32` / `num as i32` of 3 bytes.
read_24(buf, p, le, signed) ==
    IF can_read(buf, p, 3)
    THEN LET r == get_uint(buf, p, 3, le, signed)
         IN  IF r.kind = "ok" THEN Ok(Cast(r.val, 32), r.pos)
             ELSE IF r.kind = "panic" THEN r ELSE Err("UnexpectedEof", r.pos)
    ELSE Err("UnexpectedEof", p)

\* The shifts `(0..n).step_by(7)` walks through.
StepBy7(n) == [j \in 1..((n + 6) \div 7) |-> 7 * (j - 1)]

\* The loop of read_var_u32 / read_var_u64 from its k-th round on (interval = k - 1).
RECURSIVE read_var_loop(_, _, _, _, _)
read_var_loop(buf, p, steps, k, num) ==
    IF k > Len(steps)
    THEN Err("Other", p)
    ELSE LET r == peek_ahead(buf, p, k - 1)
         IN  IF r.kind # "ok" THEN r
             ELSE LET byte == Nat31(r.val)
                      acc  == BitOr(num, Shl(OfByte(byte % 128, Len(num)), steps[k]))
                  IN  IF byte < 128 THEN Ok(acc, p + k)
                      ELSE read_var_loop(buf, p, steps, k + 1, acc)

\* The loop with `byte` in the place of `byte & 0x7F`.
RECURSIVE read_var_loop_unmasked(_, _, _, _, _)
read_var_loop_unmasked(buf, p, steps, k, num) ==
    IF k > Len(steps)
    THEN Err("Other", p)
    ELSE LET r == peek_ahead(buf, p, k - 1)
         IN  IF r.kind # "ok" THEN r
             ELSE LET byte == Nat31(r.val)
                      acc  == BitOr(num, Shl(OfByte(byte, Len(num)), steps[k]))
                  IN  IF byte < 128 THEN Ok(acc, p + k)
                      ELSE read_var_loop_unmasked(buf, p, steps, k + 1, acc)

\* read_var_u32 that keeps the continuation bit of each byte in the number.
read_var_u32_unmasked(buf, p) == read_var_loop_unmasked(buf, p, StepBy7(35), 1, Zero(32))

\* read_var_u32 with its loop over (0..28): a fifth byte is never read.
read_var_u32_short(buf, p) == read_var_loop(buf, p, StepBy7(28), 1, Zero(32))

read_var_u32(buf, p) == read_var_loop(buf, p, StepBy7(35), 1, Zero(32))

\* read_var_u64 with its loop over (0..=70): an eleventh byte is read.
read_var_u64_long(buf, p) == read_var_loop(buf, p, StepBy7(77), 1, Zero(64))

read_var_u64(buf, p) == read_var_loop(buf, p, StepBy7(70), 1, Zero(64))

\* (num >> 1) as iN ^ -((num & 1) as iN)
unzigzag(num) == BitXor(Shr(num, 1), Neg(BitAnd(num, Bits(1, Len(num)))))

read_var_i32(buf, p) ==
    LET r == read_var_u32(buf, p) IN IF r.kind = "ok" THEN Ok(unzigzag(r.val), r.pos) ELSE r

read_var_i64(buf, p) ==
    LET r == read_var_u64(buf, p) IN IF r.kind = "ok" THEN Ok(unzigzag(r.val), r.pos) ELSE r

\* char::from_u32: a code point at most 0x10FFFF outside the surrogates 0xD800 .. 0xDFFF.
is_char(c) ==
    /\ Fits31(c)
    /\ Nat31(c) <= 1114111
    /\ ~(Nat31(c) >= 55296 /\ Nat31(c) <= 57343)

read_char(buf, p) ==
    LET r == read_fn(buf, p, 4, FALSE)
    IN  IF r.kind # "ok" THEN r
        ELSE IF is_char(r.val) THEN r ELSE Err("InvalidData", r.pos)

read_bool(buf, p) ==
    IF can_read(buf, p, 1)
    THEN Ok(<<IF buf[p + 1] # 0 THEN 1 ELSE 0>>, p + 1)
    ELSE Err("UnexpectedEof", p)

\* can_read!(self, len as usize) for a decoded length.
can_read_len(buf, p, len) == Fits31(len) /\ can_read(buf, p, Nat31(len))

read_string(buf, p) ==
    LET r == read_var_u64(buf, p)
    IN  IF r.kind # "ok" THEN r
        ELSE IF can_read_len(buf, r.pos, r.val)
             THEN Ok(Slice(buf, r.pos, Nat31(r.val)), r.pos + Nat31(r.val))
             ELSE Err("UnexpectedEof", r.pos)

read_sized_slice(buf, p) ==
    LET r == read_var_u32(buf, p)
    IN  IF r.kind # "ok" THEN r
        ELSE IF can_read_len(buf, r.pos, r.val)
             THEN Ok(Slice(buf, r.pos, Nat31(r.val)), r.pos + Nat31(r.val))
             ELSE Err("UnexpectedEof", r.pos)

\* ByteReader::read(&mut [u8]) for a buffer of n bytes.
read(buf, p, n) ==
    IF can_read(buf, p, n) THEN Ok(Slice(buf, p, n), p + n) ELSE Err("UnexpectedEof", p)

-----------------------------------------------------------------------------
(* The read_fn! methods of ByteReader: the bytes each reads, and the ones  *)
(* that read little-endian.                                                *)

read_fn_size ==
    [ read_u8 |-> 1, read_i8 |-> 1,
      read_u16 |-> 2, read_u16_le |-> 2, read_i16 |-> 2, read_i16_le |-> 2,
      read_u32 |-> 4, read_u32_le |-> 4, read_f32 |-> 4, read_f32_le |-> 4,
      read_i32 |-> 4, read_i32_le |-> 4,
      read_u64 |-> 8, read_u64_le |-> 8, read_i64 |-> 8, read_i64_le |-> 8,
      read_f64 |-> 8, read_f64_le |-> 8,
      read_u128 |-> 16, read_u128_le |-> 16, read_i128 |-> 16, read_i128_le |-> 16 ]

read_fn_le ==
    { "read_u16_le", "read_i16_le", "read_u32_le", "read_f32_le", "read_i32_le",
      "read_u64_le", "read_i64_le", "read_f64_le", "read_u128_le", "read_i128_le" }

\* The methods of ByteReader that take no argument.
ReadMethods ==
    DOMAIN read_fn_size \cup
    { "read_u24", "read_u24_le", "read_i24", "read_i24_le",
      "read_var_u32", "read_var_i32", "read_var_u64", "read_var_i64",
      "read_char", "read_bool", "read_string", "read_sized_slice" }

\* reader.m() for a method m of ReadMethods.
call_read(m, buf, p) ==
    IF m \in DOMAIN read_fn_size THEN read_fn(buf, p, read_fn_size[m], m \in read_fn_le)
    ELSE CASE m = "read_u24"         -> read_24(buf, p, FALSE, FALSE)
           [] m = "read_u24_le"      -> read_24(buf, p, TRUE, FALSE)
           [] m = "read_i24"         -> read_24(buf, p, FALSE, TRUE)
           [] m = "read_i24_le"      -> read_24(buf, p, TRUE, TRUE)
           [] m = "read_var_u32"     -> read_var_u32(buf, p)
           [] m = "read_var_i32"     -> read_var_i32(buf, p)
           [] m = "read_var_u64"     -> read_var_u64(buf, p)
           [] m = "read_var_i64"     -> read_var_i64(buf, p)
           [] m = "read_char"        -> read_char(buf, p)
           [] m = "read_bool"        -> read_bool(buf, p)
           [] m = "read_string"      -> read_string(buf, p)
           [] m = "read_sized_slice" -> read_sized_slice(buf, p)

-----------------------------------------------------------------------------
(* The Reader implementations of interfaces.rs.  A type is                 *)
(* [k |-> "prim", name |-> n], [k |-> "Option", of |-> T] or               *)
(* [k |-> "Vec", of |-> T].                                                *)

Prim(n) == [k |-> "prim", name |-> n]

OptionOf(T) == [k |-> "Option", of |-> T]

VecOf(T) == [k |-> "Vec", of |-> T]

\* impl_reader!: the ByteReader method behind each primitive type's Reader::read.
impl_reader ==
    ("u8" :> "read_u8") @@ ("i8" :> "read_i8") @@ ("u16" :> "read_u16") @@
    ("i16" :> "read_i16") @@ ("u32" :> "read_u32") @@ ("i32" :> "read_i32") @@
    ("u64" :> "read_u64") @@ ("i64" :> "read_i64") @@ ("u128" :> "read_u128") @@
    ("i128" :> "read_i128") @@ ("f32" :> "read_f32") @@ ("f64" :> "read_f64") @@
    ("bool" :> "read_bool") @@ ("char" :> "read_char") @@ ("String" :> "read_string") @@
    ("LE<u16>" :> "read_u16_le") @@ ("LE<u32>" :> "read_u32_le") @@
    ("LE<u64>" :> "read_u64_le") @@ ("LE<u128>" :> "read_u128_le") @@
    ("LE<i16>" :> "read_i16_le") @@ ("LE<i32>" :> "read_i32_le") @@
    ("LE<i64>" :> "read_i64_le") @@ ("LE<i128>" :> "read_i128_le") @@
    ("LE<f32>" :> "read_f32_le") @@ ("LE<f64>" :> "read_f64_le") @@
    ("BE<u16>" :> "read_u16") @@ ("BE<u32>" :> "read_u32") @@
    ("BE<u64>" :> "read_u64") @@ ("BE<u128>" :> "read_u128") @@
    ("BE<i16>" :> "read_i16") @@ ("BE<i32>" :> "read_i32") @@
    ("BE<i64>" :> "read_i64") @@ ("BE<i128>" :> "read_i128") @@
    ("BE<f32>" :> "read_f32") @@ ("BE<f64>" :> "read_f64") @@
    ("varu32" :> "read_var_u32") @@ ("vari32" :> "read_var_i32") @@
    ("varu64" :> "read_var_u64") @@ ("vari64" :> "read_var_i64") @@
    ("LE<u24>" :> "read_u24_le") @@ ("BE<u24>" :> "read_u24") @@
    ("LE<i24>" :> "read_i24_le") @@ ("BE<i24>" :> "read_i24") @@
    ("u24" :> "read_u24") @@ ("i24" :> "read_i24")

\* x <= y for unsigned integers of one width, and for signed ones.
ule(x, y) ==
    \A i \in 1..Len(x) :
        (x[i] = 1 /\ y[i] = 0) => \E j \in (i + 1)..Len(x) : x[j] = 0 /\ y[j] = 1

sle(x, y) ==
    IF x[Len(x)] # y[Len(y)] THEN x[Len(x)] = 1 ELSE ule(x, y)

\* What a constructor returns: the value, or a panic.
Made(v) == [kind |-> "ok", val |-> v]

NewPanic == [kind |-> "panic", val |-> <<>>]

\* u24::new with the upper bound left out.
u24_new_below(val) ==
    IF ule(val, Bits(16777215, 32)) /\ val # Bits(16777215, 32) THEN Made(val) ELSE NewPanic

\* u24::new(val: u32)
u24_new(val) ==
    IF ule(val, Bits(16777215, 32)) THEN Made(val) ELSE NewPanic

\* i24::new(val: i32), with -0x800000 = 0xFF800000 as an i32
i24_new(val) ==
    IF sle(BitNot(Bits(8388607, 32)), val) /\ sle(val, Bits(8388607, 32))
    THEN Made(val) ELSE NewPanic

\* The types made of a checked 24-bit integer.
U24Types == {"u24", "LE<u24>", "BE<u24>"}

I24Types == {"i24", "LE<i24>", "BE<i24>"}

\* impl_type!: From<u32> for u24 and From<i32> for i24 are Self::new(val), and
\* LE::new / BE::new and the other wrappers keep the value as it is.
from(name, val) ==
    CASE name \in U24Types -> u24_new(val)
      [] name \in I24Types -> i24_new(val)
      [] OTHER -> Made(val)

\* `.into()` on what read_u24 / read_i24 returned, in the readers of the
\* LE and BE wrappers; u24 and i24 themselves wrap the number unchecked.
into(name, r) ==
    IF r.kind = "ok" /\ name \in {"LE<u24>", "BE<u24>", "LE<i24>", "BE<i24>"}
                    /\ from(name, r.val).kind = "panic"
    THEN Panic(r.pos) ELSE r

\* A SocketAddr is [v |-> 4, ip, port] with 4 octets, or
\* [v |-> 6, ip, port, flowinfo, scope_id] with 16 octets.
SocketAddrV4(ip, port) == [v |-> 4, ip |-> ip, port |-> port]

SocketAddrV6(ip, port, flowinfo, scope_id) ==
    [v |-> 6, ip |-> ip, port |-> port, flowinfo |-> flowinfo, scope_id |-> scope_id]

SocketAddrT == [k |-> "SocketAddr"]

\* `buf.read_u8()?, buf.read_u16()?, ...`: the big-endian integers of the
\* sizes from the i-th on, each read where the one before it stopped; vals
\* are the values read so far.
RECURSIVE read_each(_, _, _, _, _)
read_each(sizes, buf, p, i, vals) ==
    IF i > Len(sizes) THEN Ok(vals, p)
    ELSE LET r == read_fn(buf, p, sizes[i], FALSE)
         IN  IF r.kind # "ok" THEN r
             ELSE read_each(sizes, buf, r.pos, i + 1, Append(vals, r.val))

\* Ipv6Addr::new(a, b, c, d, e, f, g, h): the octets of eight segments.
Ipv6Addr_new(parts) ==
    [i \in 1..16 |-> BytesBE(parts[(i + 1) \div 2])[2 - (i % 2)]]

\* The arm `4 =>`: the address of the four octets and the port read, r.
V4_arm(r) ==
    IF r.kind # "ok" THEN r
    ELSE Ok(SocketAddrV4([i \in 1..4 |-> Nat31(r.val[i])], r.val[5]), r.pos)

\* The arm `6 =>`: the address of the family, port, flow, eight segments and
\* scope id read, r.
V6_arm(r) ==
    IF r.kind # "ok" THEN r
    ELSE Ok(SocketAddrV6(Ipv6Addr_new(SubSeq(r.val, 4, 11)),
                         r.val[2], r.val[3], r.val[12]), r.pos)

\* The match with every tag but 4 taken as 6.
match_any_tag(buf, tag) ==
    IF tag.kind # "ok" THEN tag
    ELSE IF Nat31(tag.val) = 4
    THEN V4_arm(read_each(<<1, 1, 1, 1, 2>>, buf, tag.pos, 1, <<>>))
    ELSE V6_arm(read_each(<<2, 2, 4, 2, 2, 2, 2, 2, 2, 2, 2, 4>>, buf, tag.pos, 1, <<>>))

\* `match buf.read_u8()? { 4 => .., 6 => .., _ => Err(..) }` for the tag read.
match_tag(buf, tag) ==
    IF tag.kind # "ok" THEN tag
    ELSE CASE Nat31(tag.val) = 4 ->
                V4_arm(read_each(<<1, 1, 1, 1, 2>>, buf, tag.pos, 1, <<>>))
           [] Nat31(tag.val) = 6 ->
                V6_arm(read_each(<<2, 2, 4, 2, 2, 2, 2, 2, 2, 2, 2, 4>>,
                                 buf, tag.pos, 1, <<>>))
           [] OTHER -> Err("InvalidData", tag.pos)

\* Reader<SocketAddr>::read with the tag read as 6 whatever it is.
SocketAddr_read_any_tag(buf, p) == match_any_tag(buf, read_fn(buf, p, 1, FALSE))

\* Reader<SocketAddr>::read
SocketAddr_read(buf, p) == match_tag(buf, read_fn(buf, p, 1, FALSE))

\* The number of rounds of `for _ in 0..len` for a decoded u32 len; a len of 2^31
\* or more outlasts every buffer of the model.
loop_count(len) == IF Fits31(len) THEN Nat31(len) ELSE 2147483647

RECURSIVE Reader_read(_, _, _)
RECURSIVE vec_loop(_, _, _, _, _)

\* The loop of Vec<T>::read with n elements left to read.
vec_loop(T, buf, p, n, acc) ==
    IF n = 0 THEN Ok(acc, p)
    ELSE LET r == Reader_read(T, buf, p)
         IN  IF r.kind # "ok" THEN r ELSE vec_loop(T, buf, r.pos, n - 1, Append(acc, r.val))

\* <T as Reader<T>>::read(buf).  An Option is the empty sequence or <<value>>.
Reader_read(T, buf, p) ==
    CASE T.k = "prim"   -> into(T.name, call_read(impl_reader[T.name], buf, p))
      [] T.k = "SocketAddr" -> SocketAddr_read(buf, p)
      [] T.k = "Vec"    ->
            LET r == read_var_u32(buf, p)
            IN  IF r.kind # "ok" THEN r ELSE vec_loop(T.of, buf, r.pos, loop_count(r.val), <<>>)
      [] T.k = "Option" ->
            LET b == read_bool(buf, p)
            IN  IF b.kind # "ok" THEN b
                ELSE IF b.val = <<1>>
                     THEN LET r == Reader_read(T.of, buf, b.pos)
                          IN  IF r.kind = "ok" THEN Ok(<<r.val>>, r.pos) ELSE r
                     ELSE Ok(<<>>, b.pos)

\* read_option that returns the value and leaves the position after the flag.
read_option_flag_only(T, buf, p) ==
    LET b == read_bool(buf, p)
    IN  IF b.kind # "ok" THEN b
        ELSE IF b.val = <<1>>
             THEN LET r == Reader_read(T, buf, b.pos)
                  IN  IF r.kind = "ok" THEN Ok(<<r.val>>, b.pos) ELSE r
             ELSE Ok(<<>>, b.pos)

\* ByteReader::read_option::<T>()
read_option(T, buf, p) ==
    LET b == read_bool(buf, p)
    IN  IF b.kind # "ok" THEN b
        ELSE IF b.val = <<1>>
             THEN LET r == Reader_read(T, buf, b.pos)
                  IN  IF r.kind = "ok" THEN Ok(<<r.val>>, r.pos) ELSE r
             ELSE Ok(<<>>, b.pos)

\* ByteReader::read_type::<T>()
read_type(T, buf, p) == Reader_read(T, buf, p)

-----------------------------------------------------------------------------
(* ByteWriter (io.rs).  A write returns Ok(()) or Err(kind), or it panics; *)
(* `buf` is the buffer it leaves.                                          *)

WOk(b) == [kind |-> "ok", err |-> "", buf |-> b]

WErr(e, b) == [kind |-> "err", err |-> e, buf |-> b]

WPanic(b) == [kind |-> "panic", err |-> "", buf |-> b]

\* can_write!: BytesMut::remaining_mut() is usize::MAX - len, which no buffer of
\* the model comes near.
can_write(buf, size) == TRUE

\* write_fn! with the bytes put before the ones already written.
write_fn_front(buf, x, le) ==
    IF can_write(buf, Len(x) \div 8)
    THEN WOk((IF le THEN BytesLE(x) ELSE BytesBE(x)) \o buf)
    ELSE WErr("OutOfMemory", buf)

\* write_fn!: BufMut::put_uN / put_uN_le of the value x, whose width is that of the type.
write_fn(buf, x, le) ==
    IF can_write(buf, Len(x) \div 8)
    THEN WOk(buf \o (IF le THEN BytesLE(x) ELSE BytesBE(x)))
    ELSE WErr("OutOfMemory", buf)

write_u8(buf, x) == write_fn(buf, x, FALSE)

\* BufMut::put_uint(n, nbytes) and its kin: the low nbytes bytes of the 8-byte
\* value, and a panic when nbytes > 8.
put_uint(buf, num, size, le) ==
    IF size > 8 THEN WPanic(buf)
    ELSE WOk(buf \o (IF le THEN BytesLE(Cast(num, 8 * size)) ELSE BytesBE(Cast(num, 8 * size))))

write_uint(buf, num, size) ==
    IF can_write(buf, size) THEN put_uint(buf, num, size, FALSE) ELSE WErr("OutOfMemory", buf)

write_uint_le(buf, num, size) ==
    IF can_write(buf, size) THEN put_uint(buf, num, size, TRUE) ELSE WErr("OutOfMemory", buf)

write_int(buf, num, size) ==
    IF can_write(buf, size) THEN put_uint(buf, num, size, FALSE) ELSE WErr("OutOfMemory", buf)

write_int_le(buf, num, size) ==
    IF can_write(buf, size) THEN put_uint(buf, num, size, TRUE) ELSE WErr("OutOfMemory", buf)

\* num.into().into(): the u32 widened to u64, the i32 sign-extended to i64.
write_u24(buf, num) == write_uint(buf, Cast(num, 64), 3)

write_u24_le(buf, num) == write_uint_le(buf, Cast(num, 64), 3)

write_i24(buf, num) == write_int(buf, SCast(num, 64), 3)

write_i24_le(buf, num) == write_int_le(buf, SCast(num, 64), 3)

\* x > 0x80 for x >= 0x80: 128 is written as one byte.
gt_0x80(x) ==
    \/ \E i \in 9..Len(x) : x[i] = 1
    \/ x[8] = 1 /\ \E i \in 1..7 : x[i] = 1

\* x >= 0x80
ge_0x80(x) == \E i \in 8..Len(x) : x[i] = 1

\* (x as u8) | 0x80
low_byte_cont(x) == BitOr(Cast(x, 8), Bits(128, 8))

\* The loop of write_var_u32 and the write after it.
RECURSIVE write_var_u32_loop(_, _)
write_var_u32_loop(buf, x) ==
    IF ge_0x80(x)
    THEN LET r == write_u8(buf, low_byte_cont(x))
         IN  IF r.kind # "ok" THEN r ELSE write_var_u32_loop(r.buf, Shr(x, 7))
    ELSE write_u8(buf, Cast(x, 8))

write_var_u32(buf, num) == write_var_u32_loop(buf, num)

\* num < 0 for a signed value
is_negative(num) == num[Len(num)] = 1

\* The zigzag map without the complement of a negative number.
zigzag_shift(num) == Shl(num, 1)

\* num < 0 ? !((num as uN) << 1) : (num as uN) << 1
zigzag(num) == IF is_negative(num) THEN BitNot(Shl(num, 1)) ELSE Shl(num, 1)

write_var_i32(buf, num) == write_var_u32(buf, zigzag(num))

\* The loop of write_var_u64 from its k-th round on, and the error after the loop.
RECURSIVE write_var_u64_loop(_, _, _, _)
write_var_u64_loop(buf, x, steps, k) ==
    IF k > Len(steps)
    THEN WErr("InvalidData", buf)
    ELSE IF Shr(x, 7) = Zero(Len(x))
         THEN write_u8(buf, Cast(x, 8))
         ELSE LET r == write_u8(buf, BitOr(Cast(BitAnd(x, Bits(127, Len(x))), 8), Bits(128, 8)))
              IN  IF r.kind # "ok" THEN r
                  ELSE write_var_u64_loop(r.buf, Shr(x, 7), steps, k + 1)

write_var_u64(buf, num) == write_var_u64_loop(buf, num, StepBy7(70), 1)

write_var_i64(buf, num) == write_var_u64(buf, zigzag(num))

\* write_char: `c as u32` of a char given by its code point.
write_char(buf, c) == write_fn(buf, c, FALSE)

\* write_bool of <<0>> (false) or <<1>> (true): `b as u8`.
write_bool(buf, b) ==
    IF can_write(buf, 1) THEN WOk(buf \o <<b[1]>>) ELSE WErr("OutOfMemory", buf)

\* string.len() as u32, slice.len() as u32
len_u32(bytes) == Bits(Len(bytes), 32)

\* write_string with the length written as one byte instead of a varint.
write_string_len_u8(buf, string) ==
    IF can_write(buf, Len(string))
    THEN LET r == write_u8(buf, Cast(len_u32(string), 8))
         IN  IF r.kind # "ok" THEN r ELSE WOk(r.buf \o string)
    ELSE WErr("OutOfMemory", buf)

\* write_string of a string given by its UTF-8 bytes.
write_string(buf, string) ==
    IF can_write(buf, Len(string))
    THEN LET r == write_var_u32(buf, len_u32(string))
         IN  IF r.kind # "ok" THEN r ELSE WOk(r.buf \o string)
    ELSE WErr("OutOfMemory", buf)

write_slice(buf, slice) ==
    IF can_write(buf, Len(slice))
    THEN LET r == write_var_u32(buf, len_u32(slice))
         IN  IF r.kind # "ok" THEN r ELSE WOk(r.buf \o slice)
    ELSE WErr("OutOfMemory", buf)

\* ByteWriter::write(&[u8])
write(buf, bytes) ==
    IF can_write(buf, Len(bytes)) THEN WOk(buf \o bytes) ELSE WErr("OutOfMemory", buf)

-----------------------------------------------------------------------------
(* The methods of ByteWriter that take one value, and the Writer           *)
(* implementations of interfaces.rs.                                       *)

write_fn_methods ==
    { "write_u8", "write_i8", "write_u16", "write_u16_le", "write_i16", "write_i16_le",
      "write_u32", "write_u32_le", "write_i32", "write_i32_le", "write_f32", "write_f32_le",
      "write_u64", "write_u64_le", "write_i64", "write_i64_le", "write_f64", "write_f64_le",
      "write_u128", "write_u128_le", "write_i128", "write_i128_le" }

write_fn_le ==
    { "write_u16_le", "write_i16_le", "write_u32_le", "write_i32_le", "write_f32_le",
      "write_u64_le", "write_i64_le", "write_f64_le", "write_u128_le", "write_i128_le" }

\* writer.m(v)
call_write(m, buf, v) ==
    IF m \in write_fn_methods THEN write_fn(buf, v, m \in write_fn_le)
    ELSE CASE m = "write_u24"     -> write_u24(buf, v)
           [] m = "write_u24_le"  -> write_u24_le(buf, v)
           [] m = "write_i24"     -> write_i24(buf, v)
           [] m = "write_i24_le"  -> write_i24_le(buf, v)
           [] m = "write_var_u32" -> write_var_u32(buf, v)
           [] m = "write_var_i32" -> write_var_i32(buf, v)
           [] m = "write_var_u64" -> write_var_u64(buf, v)
           [] m = "write_var_i64" -> write_var_i64(buf, v)
           [] m = "write_char"    -> write_char(buf, v)
           [] m = "write_bool"    -> write_bool(buf, v)
           [] m = "write_string"  -> write_string(buf, v)
           [] m = "write_slice"   -> write_slice(buf, v)
           [] m = "write"         -> write(buf, v)

\* impl_writer!: the ByteWriter method behind each primitive type's Writer::write.
impl_writer ==
    ("u8" :> "write_u8") @@ ("i8" :> "write_i8") @@ ("u16" :> "write_u16") @@
    ("i16" :> "write_i16") @@ ("u24" :> "write_u24") @@ ("i24" :> "write_i24") @@
    ("u32" :> "write_u32") @@ ("i32" :> "write_i32") @@ ("u64" :> "write_u64") @@
    ("i64" :> "write_i64") @@ ("u128" :> "write_u128") @@ ("i128" :> "write_i128") @@
    ("f32" :> "write_f32") @@ ("f64" :> "write_f64") @@ ("bool" :> "write_bool") @@
    ("&str" :> "write_string") @@ ("String" :> "write_string") @@ ("char" :> "write_char") @@
    ("LE<u16>" :> "write_u16_le") @@ ("LE<u32>" :> "write_u32_le") @@
    ("LE<u64>" :> "write_u64_le") @@ ("LE<u128>" :> "write_u128_le") @@
    ("LE<i16>" :> "write_i16_le") @@ ("LE<i32>" :> "write_i32_le") @@
    ("LE<i64>" :> "write_i64_le") @@ ("LE<i128>" :> "write_i128_le") @@
    ("LE<f32>" :> "write_f32_le") @@ ("LE<f64>" :> "write_f64_le") @@
    ("BE<u16>" :> "write_u16") @@ ("BE<u32>" :> "write_u32") @@
    ("BE<u64>" :> "write_u64") @@ ("BE<u128>" :> "write_u128") @@
    ("BE<i16>" :> "write_i16") @@ ("BE<i32>" :> "write_i32") @@
    ("BE<i64>" :> "write_i64") @@ ("BE<i128>" :> "write_i128") @@
    ("BE<f32>" :> "write_f32") @@ ("BE<f64>" :> "write_f64") @@
    ("LE<u24>" :> "write_u24_le") @@ ("BE<u24>" :> "write_u24") @@
    ("LE<i24>" :> "write_i24_le") @@ ("BE<i24>" :> "write_i24") @@
    ("varu32" :> "write_var_u32") @@ ("varu64" :> "write_var_u64") @@
    ("vari32" :> "write_var_i32") @@ ("vari64" :> "write_var_i64")

\* `buf.m1(v1)?; buf.m2(v2)?; ...`: the calls from the i-th on, each a pair
\* <<method, value>>.
RECURSIVE write_each(_, _, _)
write_each(calls, buf, i) ==
    IF i > Len(calls) THEN WOk(buf)
    ELSE LET r == IF calls[i][1] = "write" THEN write(buf, calls[i][2])
                  ELSE write_fn(buf, calls[i][2], FALSE)
         IN  IF r.kind # "ok" THEN r ELSE write_each(calls, r.buf, i + 1)

\* Writer::write of a SocketAddr
SocketAddr_write(self, buf) ==
    IF self.v = 4
    THEN write_each(<< <<"write_u8", Bits(4, 8)>>,
                       <<"write", self.ip>>,
                       <<"write_u16", self.port>> >>, buf, 1)
    ELSE write_each(<< <<"write_u8", Bits(6, 8)>>,
                       <<"write_u16", Bits(0, 16)>>,
                       <<"write_u16", self.port>>,
                       <<"write_u32", self.flowinfo>>,
                       <<"write", self.ip>>,
                       <<"write_u32", self.scope_id>> >>, buf, 1)

RECURSIVE Writer_write(_, _, _)
RECURSIVE vec_write_loop(_, _, _, _)

\* `for item in self { item.write(buf)?; }` from the i-th item on.
vec_write_loop(T, v, buf, i) ==
    IF i > Len(v) THEN WOk(buf)
    ELSE LET r == Writer_write(T, v[i], buf)
         IN  IF r.kind # "ok" THEN r ELSE vec_write_loop(T, v, r.buf, i + 1)

\* <T as Writer>::write(&v, buf)
Writer_write(T, v, buf) ==
    CASE T.k = "prim"   -> call_write(impl_writer[T.name], buf, v)
      [] T.k = "SocketAddr" -> SocketAddr_write(v, buf)
      [] T.k = "Vec"    ->
            LET r == write_var_u32(buf, len_u32(v))
            IN  IF r.kind # "ok" THEN r ELSE vec_write_loop(T.of, v, r.buf, 1)
      [] T.k = "Option" ->
            IF v # <<>>
            THEN LET b == write_bool(buf, <<1>>)
                 IN  IF b.kind # "ok" THEN b ELSE Writer_write(T.of, v[1], b.buf)
            ELSE write_bool(buf, <<0>>)

\* ByteWriter::write_option(&Option<T>)
write_option(T, v, buf) ==
    IF v # <<>>
    THEN LET b == write_bool(buf, <<1>>)
         IN  IF b.kind # "ok" THEN b ELSE Writer_write(T, v[1], b.buf)
    ELSE write_bool(buf, <<0>>)

\* Writer::write_to_bytes: the value written to a new ByteWriter.
write_to_bytes(T, v) == Writer_write(T, v, <<>>)

-----------------------------------------------------------------------------
(* The write and read that derive_struct generates (codegen/src/io/         *)
(* structs.rs).  A struct is the sequence of its fields in declaration      *)
(* order; a field is [name, ty, attr, ref, eq]: its name, its declared      *)
(* type, its attribute ("none" without one), the sibling a require or       *)
(* if_present names, and for satisfy(self.ref == eq) the sibling and the    *)
(* value compared with; a field of satisfy(self.ref == eq && self.r2 == e2) *)
(* has the second comparison as `and`.  A value of the struct maps field    *)
(* names to values.                                                          *)

Field(name, ty, attr, ref, eq) ==
    [name |-> name, ty |-> ty, attr |-> attr, ref |-> ref, eq |-> eq]

\* resolve_generic_type(ty, "Option"): the T of an Option<T>.
resolve_generic_type(ty) == ty.of

\* Default::default() of a type.
Default(ty) ==
    CASE ty.k = "Option" -> <<>>
      [] ty.k = "Vec" -> <<>>
      [] ty.name = "bool" -> <<0>>
      [] ty.name = "u8" -> Zero(8)
      [] ty.name = "u16" -> Zero(16)
      [] OTHER -> Zero(32)

\* The expression of a satisfy attribute over the fields x (self when writing,
\* the fields read so far when reading).
satisfy_expr(f, x) ==
    /\ x[f.ref] = f.eq
    /\ "and" \in DOMAIN f => x[f.and.ref] = f.and.eq

\* _binary_writew.write(&mut value.write_to_bytes()?.as_slice())?
write_field(ty, value, buf) ==
    LET b == write_to_bytes(ty, value)
    IN  CASE b.kind = "ok" -> write(buf, b.buf)
          [] b.kind = "err" -> WErr(b.err, buf)
          [] OTHER -> WPanic(buf)

\* The statement generated for a plain field.
plain_write(f, self, buf) == write_field(f.ty, self[f.name], buf)

\* The statement generated for a require(ref) field: unwrap() of None panics.
require_write(f, self, buf) ==
    IF self[f.ref] # <<>>
    THEN IF self[f.name] = <<>> THEN WPanic(buf)
         ELSE write_field(resolve_generic_type(f.ty), self[f.name][1], buf)
    ELSE WErr("InvalidData", buf)

\* The statement generated for an if_present(ref) field.
if_present_write(f, self, buf) ==
    IF self[f.ref] # <<>>
    THEN IF self[f.name] = <<>> THEN WPanic(buf)
         ELSE write_field(resolve_generic_type(f.ty), self[f.name][1], buf)
    ELSE WOk(buf)

\* A satisfy(expr) field whose None is passed over when expr holds.
satisfy_write_lenient(f, self, buf) ==
    IF satisfy_expr(f, self) /\ self[f.name] # <<>>
    THEN write_field(resolve_generic_type(f.ty), self[f.name][1], buf)
    ELSE WOk(buf)

\* The statement generated for a satisfy(expr) field.
satisfy_write(f, self, buf) ==
    IF satisfy_expr(f, self)
    THEN IF self[f.name] # <<>>
         THEN write_field(resolve_generic_type(f.ty), self[f.name][1], buf)
         ELSE WErr("InvalidData", buf)
    ELSE WOk(buf)

\* A skip field written as a field without attribute.
skip_write_plain(f, self, buf) == write_field(f.ty, self[f.name], buf)

\* The statement generated for a skip field: none.
skip_write(f, self, buf) == WOk(buf)

field_write(f, self, buf) ==
    CASE f.attr = "none" -> plain_write(f, self, buf)
      [] f.attr = "require" -> require_write(f, self, buf)
      [] f.attr = "if_present" -> if_present_write(f, self, buf)
      [] f.attr = "satisfy" -> satisfy_write(f, self, buf)
      [] f.attr = "skip" -> skip_write(f, self, buf)

\* A write whose statements are in the reverse of the declaration order.
RECURSIVE struct_write_reversed(_, _, _, _)
struct_write_reversed(S, self, buf, i) ==
    IF i > Len(S) THEN WOk(buf)
    ELSE LET r == field_write(S[Len(S) + 1 - i], self, buf)
         IN  IF r.kind # "ok" THEN r ELSE struct_write_reversed(S, self, r.buf, i + 1)

\* The generated Writer::write: the statements of the fields from the i-th on,
\* then Ok(()).
RECURSIVE struct_write(_, _, _, _)
struct_write(S, self, buf, i) ==
    IF i > Len(S) THEN WOk(buf)
    ELSE LET r == field_write(S[i], self, buf)
         IN  IF r.kind # "ok" THEN r ELSE struct_write(S, self, r.buf, i + 1)

\* Writer::write_to_bytes of a derived struct.
struct_write_to_bytes(S, self) == struct_write(S, self, <<>>, 1)

\* Result::ok(): an error becomes None, where the failed read left the position.
ok(r) ==
    CASE r.kind = "ok" -> Ok(<<r.val>>, r.pos)
      [] r.kind = "err" -> Ok(<<>>, r.pos)
      [] OTHER -> r

\* Some(<T>::read(reader)?)
some_read(ty, buf, p) ==
    LET r == Reader_read(ty, buf, p)
    IN  IF r.kind = "ok" THEN Ok(<<r.val>>, r.pos) ELSE r

plain_read(f, env, buf, p) == Reader_read(f.ty, buf, p)

\* A require(ref) field read without the check of ref.
require_read_lenient(f, env, buf, p) ==
    ok(Reader_read(resolve_generic_type(f.ty), buf, p))

\* The statements generated for a require(ref) field.
require_read(f, env, buf, p) ==
    IF env[f.ref] = <<>> THEN Err("InvalidData", p)
    ELSE ok(Reader_read(resolve_generic_type(f.ty), buf, p))

\* The statement generated for an if_present(ref) field.
if_present_read(f, env, buf, p) == ok(Reader_read(resolve_generic_type(f.ty), buf, p))

\* A satisfy(expr) field read with .ok() in place of `?`.
satisfy_read_lenient(f, env, buf, p) ==
    IF satisfy_expr(f, env)
    THEN ok(Reader_read(resolve_generic_type(f.ty), buf, p))
    ELSE Ok(<<>>, p)

\* The statement generated for a satisfy(expr) field.
satisfy_read(f, env, buf, p) ==
    IF satisfy_expr(f, env)
    THEN some_read(resolve_generic_type(f.ty), buf, p)
    ELSE Ok(<<>>, p)

skip_read(f, env, buf, p) == Ok(Default(f.ty), p)

field_read(f, env, buf, p) ==
    CASE f.attr = "none" -> plain_read(f, env, buf, p)
      [] f.attr = "require" -> require_read(f, env, buf, p)
      [] f.attr = "if_present" -> if_present_read(f, env, buf, p)
      [] f.attr = "satisfy" -> satisfy_read(f, env, buf, p)
      [] f.attr = "skip" -> skip_read(f, env, buf, p)

\* The generated Reader::read: the `let`s of the fields from the i-th on, then
\* Ok(Self { .. }) of the fields read, env.
RECURSIVE struct_read(_, _, _, _, _)
struct_read(S, buf, p, i, env) ==
    IF i > Len(S) THEN Ok(env, p)
    ELSE LET r == field_read(S[i], env, buf, p)
         IN  IF r.kind # "ok" THEN r
             ELSE struct_read(S, buf, r.pos, i + 1, (S[i].name :> r.val) @@ env)

\* No field read yet.
NoFields == [n \in {} |-> <<>>]

\* <S>::read(&mut ByteReader::from(bytes))
struct_read_from(S, bytes) == struct_read(S, bytes, 0, 1, NoFields)

-----------------------------------------------------------------------------
(* derive_struct (codegen/src/io/structs.rs) over the struct it is given:   *)
(* [fields, list], the form of the fields ("named", "unnamed" or "unit")    *)
(* and, for each field, [name, ty, attrs]: its name (its index when         *)
(* unnamed), its type and the attributes on it as parse_attribute returned  *)
(* them.  The macro returns the error stream or the generated impls, which  *)
(* are the fields the write and read above run over.                        *)

\* IoAttr::Skip, IoAttr::Require(ref), IoAttr::IfPresent(ref), and
\* IoAttr::Satisfy(self.ref == eq)
IoAttr(kind, ref, eq) == [kind |-> kind, ref |-> ref, eq |-> eq]

\* What the macro returns when it fails: the error stream.
CompileError(msg) == [kind |-> "error", msg |-> msg]

\* parse_attributes: the fragments of a field with the attribute attr.
parse_attributes(field, attr) ==
    IF attr.kind \in {"require", "if_present", "satisfy"} /\ field.ty.k # "Option"
    THEN CompileError("Cannot have a field with this attribute that is not of type Option!")
    ELSE [kind |-> "field",
          field |-> Field(field.name, field.ty, attr.kind, attr.ref, attr.eq)]

\* The loop of derive_struct over the fields from the i-th on.
RECURSIVE derive_fields(_, _, _, _)
derive_fields(fields, list, i, S) ==
    IF i > Len(list) THEN [kind |-> "impl", S |-> S]
    ELSE LET field == list[i]
             attributes == field.attrs
         IN  IF Len(attributes) > 1
             THEN CompileError("Cannot have more than one binary_utils Attribute on a single field!")
             ELSE IF attributes = <<>>
             THEN derive_fields(fields, list, i + 1, Append(S, Field(field.name, field.ty, "none", "", <<>>)))
             ELSE IF fields = "unnamed" /\ attributes[1].kind # "skip"
             THEN CompileError("Unnamed fields only support the 'skip' attribute!")
             ELSE LET r == parse_attributes(field, attributes[1])
                  IN  IF r.kind = "error" THEN r
                      ELSE derive_fields(fields, list, i + 1, Append(S, r.field))

derive_struct(data) ==
    IF data.fields = "unit"
    THEN CompileError("Unit structs are not supported by binary_utils because they have no fields to parse or write.")
    ELSE derive_fields(data.fields, data.list, 1, <<>>)

-----------------------------------------------------------------------------
(* derive_enum (binary-util-derive/src/io/enums.rs) and the write and read  *)
(* it generates.  An enum is [repr, variants]: repr is <<>> without a       *)
(* #[repr] attribute and <<name>> with one; a variant is [name,             *)
(* discriminant, attrs, fields, list]: its discriminant expression (none,   *)
(* an integer literal, or another expression), the attributes on it, the    *)
(* form of its fields ("unit", "unnamed" or "named") and, for each field,   *)
(* its type and the attributes on it.  A value of the enum is [variant,     *)
(* args].                                                                   *)

NoDiscriminant == [k |-> "none", n |-> 0]

LitInt(n) == [k |-> "lit", n |-> n]

OtherExpr == [k |-> "expr", n |-> 0]

Variant(name, discriminant, attrs, fields, list) ==
    [name |-> name, discriminant |-> discriminant, attrs |-> attrs,
     fields |-> fields, list |-> list]

\* REG.is_match(repr)
is_repr(repr) ==
    repr \in {"u8", "u16", "u32", "u64", "u128", "usize",
              "i8", "i16", "i32", "i64", "i128", "isize"}

\* A first variant without discriminant numbered 1.
next_discrim_from_one(curr_discrim, discriminant) ==
    IF discriminant.k = "lit" THEN <<discriminant.n>>
    ELSE IF curr_discrim # <<>> THEN <<curr_discrim[1] + 1>> ELSE <<1>>

\* curr_discrim after a variant whose discriminant is a literal or absent.
next_discrim(curr_discrim, discriminant) ==
    IF discriminant.k = "lit" THEN <<discriminant.n>>
    ELSE IF curr_discrim # <<>> THEN <<curr_discrim[1] + 1>> ELSE <<0>>

\* parse_enum_variant: the arms of the variant, or an error.
parse_enum_variant(variant, discrim) ==
    IF variant.fields = "unnamed" /\ \E i \in 1..Len(variant.list) : variant.list[i].attrs # <<>>
    THEN CompileError("Attributes are not valid on enum variant fields at this time.")
    ELSE [kind |-> "variant", name |-> variant.name, discriminant |-> discrim,
          args |-> IF variant.fields = "unnamed"
                   THEN [i \in 1..Len(variant.list) |-> variant.list[i].ty]
                   ELSE <<>>]

\* The loop of derive_enum over the variants from the i-th on.
RECURSIVE derive_enum_loop(_, _, _, _)
derive_enum_loop(E, i, curr_discrim, variants) ==
    IF i > Len(E.variants)
    THEN [kind |-> "impl", repr |-> E.repr[1], variants |-> variants]
    ELSE LET variant == E.variants[i]
             curr == next_discrim(curr_discrim, variant.discriminant)
         IN  IF variant.discriminant.k = "expr"
             THEN CompileError("Discriminant must be a primitive integer literal.")
             ELSE IF variant.attrs # <<>> /\ variant.attrs[1].kind # "skip"
             THEN CompileError("Attributes: #[satisfy], #[if_present], and #[require] are not valid on enum variants.")
             ELSE IF variant.fields = "named"
             THEN CompileError("Enums can not have named fields in their variants.")
             ELSE LET parsed == parse_enum_variant(variant, curr[1])
                  IN  IF parsed.kind = "error" THEN parsed
                      ELSE derive_enum_loop(E, i + 1, curr, Append(variants, parsed))

derive_enum(E) ==
    IF E.repr = <<>> THEN CompileError("Enum must have a #[repr] attribute.")
    ELSE IF ~is_repr(E.repr[1])
    THEN CompileError("#[repr] attribute must contain a valid C type")
    ELSE derive_enum_loop(E, 1, <<>>, <<>>)

\* binary_encoder: the macro over a struct or an enum.
binary_encoder(input) ==
    CASE input.data = "struct" -> derive_struct(input)
      [] input.data = "enum" -> derive_enum(input)

\* The bits of an integer type.
int_bits(ty) ==
    CASE ty \in {"u8", "i8"} -> 8
      [] ty \in {"u16", "i16"} -> 16
      [] ty \in {"u32", "i32"} -> 32
      [] ty \in {"u64", "i64"} -> 64
      [] OTHER -> 128

\* The literal of a discriminant with the repr type as its suffix.
discrim_lit(discrim, repr) == Bits(discrim, int_bits(repr))

\* The writes of the payload fields of a variant from the i-th on.
RECURSIVE args_write(_, _, _, _)
args_write(tys, args, buf, i) ==
    IF i > Len(tys) THEN WOk(buf)
    ELSE LET r == write_field(tys[i], args[i], buf)
         IN  IF r.kind # "ok" THEN r ELSE args_write(tys, args, r.buf, i + 1)

\* The generated Writer::write: the arm of `match self` for the variant of self.
enum_write(impl, self, buf) ==
    LET arm == impl.variants[CHOOSE i \in 1..Len(impl.variants) :
                                impl.variants[i].name = self.variant]
        d == write_field(Prim(impl.repr), discrim_lit(arm.discriminant, impl.repr), buf)
    IN  IF d.kind # "ok" THEN d ELSE args_write(arm.args, self.args, d.buf, 1)

\* The reads of the payload fields of a variant from the i-th on.
RECURSIVE args_read(_, _, _, _, _)
args_read(tys, buf, p, i, args) ==
    IF i > Len(tys) THEN Ok(args, p)
    ELSE LET r == Reader_read(tys[i], buf, p)
         IN  IF r.kind # "ok" THEN r
             ELSE args_read(tys, buf, r.pos, i + 1, Append(args, r.val))

\* The arms of the generated `match <repr>::read(..)?` whose literal is d.
arms_of(impl, d) ==
    {i \in 1..Len(impl.variants) : discrim_lit(impl.variants[i].discriminant, impl.repr) = d}

\* A read that takes the first variant for a discriminant of no variant.
enum_read_first(impl, buf, p) ==
    LET d == Reader_read(Prim(impl.repr), buf, p)
    IN  IF d.kind # "ok" THEN d
        ELSE LET arm == impl.variants[IF arms_of(impl, d.val) = {} THEN 1
                                      ELSE CHOOSE i \in arms_of(impl, d.val) :
                                             \A j \in arms_of(impl, d.val) : i <= j]
                 r == args_read(arm.args, buf, d.pos, 1, <<>>)
             IN  IF r.kind # "ok" THEN r
                 ELSE Ok([variant |-> arm.name, args |-> r.val], r.pos)

\* The generated Reader::read: the first arm whose literal is the value read,
\* or the arm `_`.
enum_read(impl, buf, p) ==
    LET d == Reader_read(Prim(impl.repr), buf, p)
    IN  IF d.kind # "ok" THEN d
        ELSE IF arms_of(impl, d.val) = {} THEN Err("InvalidData", d.pos)
        ELSE LET arm == impl.variants[CHOOSE i \in arms_of(impl, d.val) :
                                        \A j \in arms_of(impl, d.val) : i <= j]
                 r == args_read(arm.args, buf, d.pos, 1, <<>>)
             IN  IF r.kind # "ok" THEN r
                 ELSE Ok([variant |-> arm.name, args |-> r.val], r.pos)

-----------------------------------------------------------------------------
(* Bounds and input sets *)

\* The longest byte slice of arbitrary content a reader is made from.
MaxSliceLen == 2

\* The most write calls made on one writer.
MaxWrites == 2

\* The largest offset handed to peek_ahead.
MaxPeek == 2

\* The bytes arbitrary slices are made of: zero, a small number (a length, a
\* true), and a byte with the continuation bit set.
ByteAlpha == {0, 2, 255}

SeqsUpTo(S, n) == UNION {[1..k -> S] : k \in 0..n}

\* A run of k bytes with the continuation bit set.
ContRun(k) == [i \in 1..k |-> IF i % 2 = 1 THEN 255 ELSE 128]

\* Varints of five bytes whose fifth byte has bits above the 32nd, and one of
\* six bytes whose value is 0.
Overlong ==
    {<<128, 128, 128, 128, 16>>, <<255, 255, 255, 255, 127>>, <<128, 128, 128, 128, 128, 0>>}

\* Longer slices: runs of continuation bytes around the varint limits, ended or
\* not, and 17 bytes for the widest reads.
LongSlices ==
    {ContRun(k) \o t : k \in {5, 6, 10, 11}, t \in {<<>>, <<2>>}}
    \cup {[i \in 1..17 |-> IF i % 2 = 1 THEN 255 ELSE i]}
    \cup Overlong

Slices == SeqsUpTo(ByteAlpha, MaxSliceLen) \cup LongSlices

\* The sizes handed to read_uint and its kin, and the buffer lengths handed to read.
UintSizes == {0, 1, 3, 8, 9}

ReadLens == {0, 1, 2, 4}

\* The types read_option and read_type are used at.
ReadTypes ==
    { Prim("u8"), Prim("u16"), Prim("String"), Prim("varu32"),
      VecOf(Prim("u8")), VecOf(Prim("u16")), OptionOf(Prim("u8")) }

\* 2^k - 1 and 2^k at width w
AllOnes(k, w) == [i \in 1..w |-> IF i <= k THEN 1 ELSE 0]

OneBit(k, w) == [i \in 1..w |-> IF i = k + 1 THEN 1 ELSE 0]

\* Values around every length of a varint, and the extremes.
U32Vals ==
    {AllOnes(k, 32) : k \in {0, 7, 28, 31, 32}}
    \cup {OneBit(k, 32) : k \in {7, 28}}

U64Vals ==
    {AllOnes(k, 64) : k \in {56, 63, 64}}
    \cup {OneBit(k, 64) : k \in {56, 63}}

\* The two's complement bits of the integer n, -2^31 < n < 2^31, at width w.
SBits(n, w) == IF n >= 0 THEN Bits(n, w) ELSE BitNot(Bits(-n - 1, w))

MinInt(w) == OneBit(w - 1, w)

MaxInt(w) == AllOnes(w - 1, w)

I32Vals ==
    {SBits(n, 32) : n \in {-1, -12, 63, 64, -64, -2147483647}}
    \cup {MinInt(32), MaxInt(32)}

I64Vals ==
    {SBits(-1, 64), MinInt(64), MaxInt(64)}

U8Vals == {Bits(255, 8)}

\* A string of n bytes, by its UTF-8 bytes.
Letters(n) == [i \in 1..n |-> 97 + (i % 26)]

\* Strings, by their UTF-8 bytes: the empty string, one with a two-byte
\* character, and one whose length takes a two-byte prefix.
Strings == {<<>>, <<195, 169, 33>>, Letters(128)}

\* The values each write method is called with.
WriteVals ==
    [ write_u8 |-> U8Vals,
      write_u16 |-> {Bits(258, 16)}, write_u32_le |-> {FromBE(<<1, 2, 3, 4>>)},
      write_var_u32 |-> U32Vals, write_var_i32 |-> I32Vals,
      write_var_u64 |-> U64Vals, write_var_i64 |-> I64Vals,
      write_bool |-> {<<1>>},
      write_string |-> Strings ]

\* The read method that reads back what a write method wrote.
ReadOf ==
    [ write_u8 |-> "read_u8",
      write_u16 |-> "read_u16", write_u32_le |-> "read_u32_le",
      write_var_u32 |-> "read_var_u32", write_var_i32 |-> "read_var_i32",
      write_var_u64 |-> "read_var_u64", write_var_i64 |-> "read_var_i64",
      write_bool |-> "read_bool",
      write_string |-> "read_string" ]

\* The derived structs: ABC of tests/binary_io_struct.rs, the struct of the
\* require example of codegen/src/lib.rs, the same with if_present, the
\* struct of the skip example, ABC without c, the struct of the require
\* example with if_present, MyStruct of tests/u24.rs, and the unnamed structs
\* Test(u8, u16) of structs.rs and SpecialStruct of tests/binary_io_struct.rs,
\* whose fields are named by their index.
OptU8 == OptionOf(Prim("u8"))

Plain(name, ty) == Field(name, ty, "none", "", <<>>)

Structs ==
    [ ABC |-> << Plain("a", Prim("u8")),
                 Field("b", OptU8, "satisfy", "a", Bits(10, 8)),
                 Plain("c", Prim("u8")) >>,
      Required |-> << Plain("a", Prim("u8")),
                      Plain("b", OptU8),
                      Field("c", OptU8, "require", "b", <<>>) >>,
      IfPresent |-> << Plain("a", OptU8),
                       Field("b", OptU8, "if_present", "a", <<>>),
                       Plain("c", Prim("u8")) >>,
      Skipped |-> << Plain("a", Prim("u8")),
                     Field("b", OptU8, "skip", "", <<>>),
                     Plain("c", Prim("u8")) >>,
      AB |-> << Plain("a", Prim("u8")),
                Field("b", OptU8, "satisfy", "a", Bits(10, 8)) >>,
      Present |-> << Plain("a", Prim("u8")),
                     Plain("b", OptU8),
                     Field("c", OptU8, "if_present", "b", <<>>) >>,
      MyStruct |-> << Plain("a_value_before", Prim("bool")),
                      Plain("test", Prim("u24")),
                      Plain("test_le", Prim("LE<u24>")) >>,
      Test |-> << Plain("0", Prim("u8")), Plain("1", Prim("u16")) >>,
      SpecialStruct |-> << Plain("0", Prim("bool")),
                           Field("1", OptU8, "skip", "", <<>>),
                           Field("2", OptU8, "skip", "", <<>>) >>,
      CompexPacket |-> << Field("is_ack", Prim("bool"), "skip", "", <<>>),
                          Plain("contains_content", Prim("bool")),
                          [name |-> "content", ty |-> OptionOf(Prim("String")),
                           attr |-> "satisfy", ref |-> "contains_content", eq |-> <<1>>,
                           and |-> [ref |-> "is_ack", eq |-> <<1>>]],
                          Field("content_validated", OptionOf(Prim("u32")),
                                "if_present", "content", <<>>) >> ]

\* The values a field of a type is given.
FieldVals(ty) ==
    CASE ty.k = "Option" /\ ty.of.name = "String" -> {<<>>, <<<<104, 105>>>>}
      [] ty.k = "Option" /\ ty.of.name = "u32" -> {<<>>, <<FromBE(<<1, 2, 3, 4>>)>>}
      [] ty.k = "Option" /\ ty.of.name = "u8" -> {<<>>, <<Bits(9, 8)>>, <<Bits(99, 8)>>}
      [] ty.name = "bool" -> {<<0>>, <<1>>}
      [] ty.name = "u16" -> {Bits(258, 16), Bits(10, 16)}
      [] ty.name \in {"u24", "LE<u24>"} -> {Bits(10000, 32), Bits(90, 32)}
      [] OTHER -> {Bits(10, 8), Bits(4, 8), Bits(1, 8)}

\* The values of the fields of a struct from the i-th on.
RECURSIVE FieldsVals(_, _)
FieldsVals(S, i) ==
    IF i > Len(S) THEN {NoFields}
    ELSE {(S[i].name :> x) @@ v : x \in FieldVals(S[i].ty), v \in FieldsVals(S, i + 1)}

\* The values of a struct.
StructVals(S) == FieldsVals(S, 1)

\* The derived enums: TestPacket of tests/binary_io_enum.rs, PacketField of
\* tests/no_init.rs, and an enum of repr u16.
UnitVariant(name, discriminant) == Variant(name, discriminant, <<>>, "unit", <<>>)

TupleVariant(name, discriminant, tys) ==
    Variant(name, discriminant, <<>>, "unnamed",
            [i \in 1..Len(tys) |-> [ty |-> tys[i], attrs |-> <<>>]])

Enums ==
    [ TestPacket |->
        [repr |-> <<"u8">>,
         variants |-> << UnitVariant("A", NoDiscriminant),
                         TupleVariant("B", NoDiscriminant, <<Prim("u8"), Prim("u8")>>),
                         TupleVariant("C", NoDiscriminant,
                                      <<Prim("u8"), Prim("u8"), Prim("u8")>>) >>],
      PacketField |->
        [repr |-> <<"u8">>,
         variants |-> << UnitVariant("Cats", LitInt(10)),
                         UnitVariant("Dogs", LitInt(12)),
                         UnitVariant("Apple", NoDiscriminant) >>],
      Wide |->
        [repr |-> <<"u16">>,
         variants |-> << TupleVariant("Lo", LitInt(258), <<Prim("u8")>>),
                         UnitVariant("Hi", NoDiscriminant) >>] ]

\* The values a payload of the given types takes.
RECURSIVE ArgVals(_)
ArgVals(tys) ==
    IF tys = <<>> THEN {<<>>}
    ELSE {<<x>> \o rest : x \in {Bits(1, 8), Bits(2, 8)}, rest \in ArgVals(Tail(tys))}

\* The values of an enum.
EnumVals(E) ==
    UNION { {[variant |-> E.variants[i].name, args |-> a] :
                a \in ArgVals([j \in 1..Len(E.variants[i].list) |-> E.variants[i].list[j].ty])} :
            i \in 1..Len(E.variants) }

\* The structs and enums the macro is given: up to MaxFields fields, each a u8
\* or an Option<u8>, with no attribute, one or two, whose reference is the
\* first field, the second, or no field of the struct; up to MaxVariants
\* variants of each form with or without discriminant.
MaxFields == 2

MaxVariants == 2

FieldNames == <<"a", "b", "c", "d">>

FieldIndexes == <<"0", "1", "2", "3">>

VariantNames == <<"A", "B", "C", "D">>

AttrLists ==
    {<<>>, <<IoAttr("skip", "", <<>>)>>}
    \cup {<<IoAttr(k, r, Bits(10, 8))>> :
            k \in {"require", "if_present", "satisfy"}, r \in {"a", "b", "z"}}
    \cup {<<IoAttr("skip", "", <<>>), IoAttr("require", "a", <<>>)>>,
          <<IoAttr("require", "a", <<>>), IoAttr("if_present", "a", <<>>)>>}

\* The type and the attributes of a field: an Option<u8> with any of the
\* attributes, a u8 with none, skip, or a directive that names the first field.
FieldShapes ==
    {<<OptU8, a>> : a \in AttrLists}
    \cup {<<Prim("u8"), a>> : a \in {b \in AttrLists : \A i \in 1..Len(b) : b[i].ref # "b" /\ b[i].ref # "z"}}

FieldLists(names, max) ==
    UNION { { [i \in 1..n |-> [name |-> names[i], ty |-> ta[i][1], attrs |-> ta[i][2]]] :
                ta \in [1..n -> FieldShapes] } :
            n \in 0..max }

StructInputs(max) ==
    {[data |-> "struct", fields |-> "named", list |-> l] : l \in FieldLists(FieldNames, max)}
    \cup {[data |-> "struct", fields |-> "unnamed", list |-> l] :
             l \in FieldLists(FieldIndexes, max)}
    \cup {[data |-> "struct", fields |-> "unit", list |-> <<>>]}

\* The discriminant, the form, the attributes and the fields of a variant.
VariantShapes ==
    {<<d, "unit", <<>>, <<>>>> : d \in {NoDiscriminant, LitInt(0), LitInt(1), OtherExpr}}
    \cup {<<d, "unnamed", <<>>, <<[ty |-> Prim("u8"), attrs |-> <<>>]>>>> :
             d \in {NoDiscriminant, LitInt(0), LitInt(1)}}
    \cup {<<NoDiscriminant, "named", <<>>, <<>>>>,
          <<NoDiscriminant, "unit", <<IoAttr("skip", "", <<>>)>>, <<>>>>,
          <<NoDiscriminant, "unit", <<IoAttr("require", "a", <<>>)>>, <<>>>>,
          <<NoDiscriminant, "unnamed", <<>>,
            <<[ty |-> Prim("u8"), attrs |-> <<IoAttr("skip", "", <<>>)>>]>>>>}

EnumInputs(max) ==
    UNION { { [data |-> "enum", repr |-> r,
               variants |-> [i \in 1..n |->
                   Variant(VariantNames[i], vs[i][1], vs[i][3], vs[i][2], vs[i][4])]] :
                vs \in [1..n -> VariantShapes], r \in {<<>>, <<"u8">>, <<"C">>} } :
            n \in 1..max }

\* The longest byte slice a derived enum is read from, and its bytes.
MaxEnumWireLen == 4

EnumWireAlpha == {0, 1, 2, 13}

EnumWires(max) == SeqsUpTo(EnumWireAlpha, max)

\* The longest byte slice a derived read is given, and its bytes.
MaxWireLen == 4

WireAlpha == {0, 9, 10}

Wires(max) == SeqsUpTo(WireAlpha, max)

-----------------------------------------------------------------------------
(* The cursor pair as a state machine: a program holds a ByteWriter or a   *)
(* ByteReader and calls its methods one after another.                     *)

\* What `last` records of a read: its result and the position before it.
ReadRecord(op, arg, r, p0) ==
    [op |-> op, arg |-> arg, kind |-> r.kind, err |-> r.err, val |-> r.val,
     pos0 |-> p0, len0 |-> 0]

\* What `last` records of a write: its result and the length of the buffer before it.
WriteRecord(op, arg, r, l0) ==
    [op |-> op, arg |-> arg, kind |-> r.kind, err |-> r.err, val |-> <<>>,
     pos0 |-> 0, len0 |-> l0]

NoOp(op) ==
    [op |-> op, arg |-> <<>>, kind |-> "ok", err |-> "", val |-> <<>>, pos0 |-> 0, len0 |-> 0]

NoStruct == [name |-> "", S |-> <<>>, v |-> <<>>]

NoWire == [kind |-> "none", err |-> "", buf |-> <<>>]

NoDec == [kind |-> "none", err |-> "", val |-> <<>>, pos |-> 0]

NoGen == [kind |-> "none"]

NoStructs == rec = NoStruct /\ wire = NoWire /\ dec = NoDec /\ gen = NoGen

\* ByteReader::from(&[u8]) over a slice
Init ==
    /\ phase = "reader"
    /\ rbuf \in Slices
    /\ pos = 0
    /\ last = NoOp("ByteReader::from")
    /\ wbuf = <<>>
    /\ nw = 0
    /\ wlog = <<>>
    /\ NoStructs

\* A call of a ByteReader method with result rr.
DidRead(op, arg, rr) ==
    \E r \in {rr} :
        /\ pos' = r.pos
        /\ last' = ReadRecord(op, arg, r, pos)
        /\ UNCHANGED <<phase, wbuf, nw, rbuf, structVars>>

\* A program that saw a panic makes no further call.
CanRead == phase = "reader" /\ last.kind # "panic"

\* reader.peek_ahead(k)
PeekAhead ==
    /\ CanRead
    /\ \E k \in 0..MaxPeek : DidRead("peek_ahead", k, peek_ahead(rbuf, pos, k))
    /\ UNCHANGED wlog

\* reader.m() for a method without arguments
Read ==
    /\ CanRead
    /\ \E m \in ReadMethods : DidRead(m, <<>>, call_read(m, rbuf, pos))
    /\ UNCHANGED wlog

\* reader.read_uint(size), read_uint_le(size), read_int(size), read_int_le(size)
ReadUint ==
    /\ CanRead
    /\ \E size \in UintSizes :
          \/ DidRead("read_uint", size, read_uint(rbuf, pos, size))
          \/ DidRead("read_uint_le", size, read_uint_le(rbuf, pos, size))
          \/ DidRead("read_int", size, read_int(rbuf, pos, size))
          \/ DidRead("read_int_le", size, read_int_le(rbuf, pos, size))
    /\ UNCHANGED wlog

\* reader.read(&mut buffer) for a buffer of n bytes
ReadBytes ==
    /\ CanRead
    /\ \E n \in ReadLens : DidRead("read", n, read(rbuf, pos, n))
    /\ UNCHANGED wlog

\* reader.read_option::<T>()
ReadOption ==
    /\ CanRead
    /\ \E T \in ReadTypes : DidRead("read_option", T, read_option(T, rbuf, pos))
    /\ UNCHANGED wlog

\* reader.read_type::<T>()
ReadType ==
    /\ CanRead
    /\ \E T \in ReadTypes : DidRead("read_type", T, read_type(T, rbuf, pos))
    /\ UNCHANGED wlog

Next ==
    \/ PeekAhead
    \/ Read
    \/ ReadUint
    \/ ReadBytes
    \/ ReadOption
    \/ ReadType

\* A reader over any slice, and any calls on it.
Spec == Init /\ [][Next]_vars

-----------------------------------------------------------------------------
(* A writer, written to and then turned into the reader that reads back    *)
(* what was written, in the order it was written.                          *)

\* ByteWriter::new()
InitPipe ==
    /\ phase = "writer"
    /\ wbuf = <<>>
    /\ nw = 0
    /\ rbuf = <<>>
    /\ pos = 0
    /\ last = NoOp("ByteWriter::new")
    /\ wlog = <<>>
    /\ NoStructs

\* What wlog keeps of a write: the method, the value and the number of bytes written.
Written(op, v, n) == [op |-> op, val |-> v, n |-> n]

\* A call of a ByteWriter method with result rr.
Wrote(op, arg, rr) ==
    \E r \in {rr} :
        /\ wbuf' = r.buf
        /\ nw' = nw + 1
        /\ last' = WriteRecord(op, arg, r, Len(wbuf))
        /\ wlog' = IF r.kind = "ok"
                   THEN Append(wlog, Written(op, arg, Len(r.buf) - Len(wbuf)))
                   ELSE wlog
        /\ UNCHANGED <<phase, rbuf, pos, structVars>>

CanWriteMore == phase = "writer" /\ last.kind # "panic" /\ nw < MaxWrites

\* writer.m(v) for a method of one value
Write ==
    /\ CanWriteMore
    /\ \E m \in DOMAIN WriteVals : \E v \in WriteVals[m] : Wrote(m, v, call_write(m, wbuf, v))

\* writer.write_option(&v) at Option<u16>
WriteOption ==
    /\ CanWriteMore
    /\ \E v \in {<<Bits(34, 16)>>} :
          Wrote("write_option", v, write_option(Prim("u16"), v, wbuf))

\* writer.clear()
Clear ==
    /\ phase = "writer" /\ last.kind # "panic"
    /\ wbuf # <<>>
    /\ wbuf' = <<>>
    /\ nw' = 0
    /\ last' = WriteRecord("clear", <<>>, WOk(<<>>), Len(wbuf))
    /\ wlog' = <<>>
    /\ UNCHANGED <<phase, rbuf, pos, structVars>>

\* ByteReader::from(writer)
IntoReader ==
    /\ phase = "writer" /\ last.kind # "panic"
    /\ phase' = "reader"
    /\ rbuf' = wbuf
    /\ pos' = 0
    /\ last' = NoOp("ByteReader::from")
    /\ UNCHANGED <<wbuf, nw, wlog, structVars>>

\* The read of the next value written: reader.m() for the m that reads what
\* the write method wrote.
ReadBack ==
    /\ CanRead
    /\ wlog # <<>>
    /\ Head(wlog).op \in DOMAIN ReadOf
    /\ DidRead(ReadOf[Head(wlog).op], Head(wlog), call_read(ReadOf[Head(wlog).op], rbuf, pos))
    /\ wlog' = Tail(wlog)

\* reader.read_option::<u16>() of the next value written, by write_option
ReadBackOption ==
    /\ CanRead
    /\ wlog # <<>>
    /\ Head(wlog).op = "write_option"
    /\ DidRead("read_option", Head(wlog), read_option(Prim("u16"), rbuf, pos))
    /\ wlog' = Tail(wlog)

NextPipe ==
    \/ Write
    \/ WriteOption
    \/ Clear
    \/ IntoReader
    \/ ReadBack
    \/ ReadBackOption

SpecPipe == InitPipe /\ [][NextPipe]_vars

-----------------------------------------------------------------------------
(* A value of a derived struct, written by the generated write and read    *)
(* back from the bytes written by the generated read.                      *)

InitStruct ==
    /\ \E n \in DOMAIN Structs : \E v \in StructVals(Structs[n]) :
          rec = [name |-> n, S |-> Structs[n], v |-> v]
    /\ wire = NoWire
    /\ dec = NoDec
    /\ gen = NoGen
    /\ phase = "writer"
    /\ wbuf = <<>>
    /\ nw = 0
    /\ rbuf = <<>>
    /\ pos = 0
    /\ last = NoOp("ByteWriter::new")
    /\ wlog = <<>>

\* rec.v.write_to_bytes()
Encode ==
    /\ wire.kind = "none"
    /\ wire' = struct_write_to_bytes(rec.S, rec.v)
    /\ UNCHANGED <<phase, wbuf, nw, rbuf, pos, last, wlog, rec, dec, gen>>

\* <S>::read(&mut ByteReader::from(bytes)) of the bytes written
Decode ==
    /\ wire.kind = "ok"
    /\ dec.kind = "none"
    /\ dec' = struct_read_from(rec.S, wire.buf)
    /\ UNCHANGED <<phase, wbuf, nw, rbuf, pos, last, wlog, rec, wire, gen>>

NextStruct ==
    \/ Encode
    \/ Decode

SpecStruct == InitStruct /\ [][NextStruct]_vars

-----------------------------------------------------------------------------
(* The generated read of a derived struct over an arbitrary byte slice.    *)

InitDecode ==
    /\ \E n \in DOMAIN Structs : rec = [name |-> n, S |-> Structs[n], v |-> <<>>]
    /\ rbuf \in Wires(MaxWireLen)
    /\ wire = NoWire
    /\ dec = NoDec
    /\ gen = NoGen
    /\ phase = "reader"
    /\ wbuf = <<>>
    /\ nw = 0
    /\ pos = 0
    /\ last = NoOp("ByteReader::from")
    /\ wlog = <<>>

\* <S>::read(&mut ByteReader::from(rbuf))
DecodeSlice ==
    /\ dec.kind = "none"
    /\ dec' = struct_read_from(rec.S, rbuf)
    /\ pos' = dec'.pos
    /\ UNCHANGED <<phase, wbuf, nw, rbuf, last, wlog, rec, wire, gen>>

NextDecode == DecodeSlice

SpecDecode == InitDecode /\ [][NextDecode]_vars

-----------------------------------------------------------------------------
(* The derive macro over a struct or an enum.                              *)

InitDerive ==
    /\ \/ \E input \in StructInputs(MaxFields) : rec = [name |-> "struct", S |-> input, v |-> <<>>]
       \/ \E input \in EnumInputs(MaxVariants) : rec = [name |-> "enum", S |-> input, v |-> <<>>]
    /\ gen = NoGen
    /\ wire = NoWire
    /\ dec = NoDec
    /\ phase = "writer"
    /\ wbuf = <<>>
    /\ nw = 0
    /\ rbuf = <<>>
    /\ pos = 0
    /\ last = NoOp("ByteWriter::new")
    /\ wlog = <<>>

\* #[derive(BinaryIo)] on rec.S
Derive ==
    /\ gen.kind = "none"
    /\ gen' = binary_encoder(rec.S)
    /\ UNCHANGED <<phase, wbuf, nw, rbuf, pos, last, wlog, rec, wire, dec>>

NextDerive == Derive

SpecDerive == InitDerive /\ [][NextDerive]_vars

-----------------------------------------------------------------------------
(* A value of a derived enum written by the generated write, and the       *)
(* generated read over an arbitrary byte slice.                            *)

InitEnum ==
    /\ \E n \in DOMAIN Enums : \E v \in EnumVals(Enums[n]) :
          /\ rec = [name |-> n, S |-> Enums[n], v |-> v]
          /\ gen = derive_enum(Enums[n])
    /\ wire = NoWire
    /\ dec = NoDec
    /\ phase = "writer"
    /\ wbuf = <<>>
    /\ nw = 0
    /\ rbuf = <<>>
    /\ pos = 0
    /\ last = NoOp("ByteWriter::new")
    /\ wlog = <<>>

\* rec.v.write_to_bytes()
EncodeEnum ==
    /\ gen.kind = "impl"
    /\ wire.kind = "none"
    /\ wire' = enum_write(gen, rec.v, <<>>)
    /\ UNCHANGED <<phase, wbuf, nw, rbuf, pos, last, wlog, rec, dec, gen>>

\* <E>::read(&mut ByteReader::from(bytes))
DecodeEnum ==
    /\ gen.kind = "impl"
    /\ dec.kind = "none"
    /\ \E bytes \in EnumWires(MaxEnumWireLen) :
          /\ rbuf' = bytes
          /\ dec' = enum_read(gen, bytes, 0)
    /\ pos' = dec'.pos
    /\ phase' = "reader"
    /\ UNCHANGED <<wbuf, nw, last, wlog, rec, wire, gen>>

NextEnum ==
    \/ EncodeEnum
    \/ DecodeEnum

SpecEnum == InitEnum /\ [][NextEnum]_vars

-----------------------------------------------------------------------------
(* A value of a type of types.rs or a SocketAddr, made from a host value,  *)
(* written by its Writer and read back by its Reader; and the Reader over  *)
(* an arbitrary byte slice.                                                *)

\* The three forms of an integer type.
Forms(n, be, le) == <<Prim(n), Prim(be), Prim(le)>>

\* The types with the host values each is made from: integers with
\* distinct bytes and the extremes, and for the 24-bit types the values at and
\* around the bounds of the range; 127.0.0.1:19132 of tests/socket.rs, and a
\* V6 address.
Codecs ==
    << [tys |-> Forms("u16", "BE<u16>", "LE<u16>"),
        vals |-> {FromBE(<<1, 2>>), AllOnes(16, 16)}],
       [tys |-> Forms("i16", "BE<i16>", "LE<i16>"),
        vals |-> {FromBE(<<255, 2>>), MinInt(16)}],
       [tys |-> Forms("u24", "BE<u24>", "LE<u24>"),
        vals |-> {Bits(0, 32), Bits(10000, 32), Bits(66051, 32), Bits(16777215, 32),
                  Bits(16777216, 32), AllOnes(32, 32)}],
       [tys |-> Forms("i24", "BE<i24>", "LE<i24>"),
        vals |-> {SBits(-1, 32), SBits(-130300, 32), SBits(-8388608, 32),
                  SBits(-8388609, 32), Bits(8388607, 32), Bits(8388608, 32),
                  Bits(66051, 32), MinInt(32), MaxInt(32)}],
       [tys |-> Forms("u32", "BE<u32>", "LE<u32>"),
        vals |-> {FromBE(<<1, 2, 3, 4>>), AllOnes(32, 32)}],
       [tys |-> Forms("i32", "BE<i32>", "LE<i32>"),
        vals |-> {FromBE(<<255, 2, 3, 4>>), MinInt(32)}],
       [tys |-> Forms("u64", "BE<u64>", "LE<u64>"),
        vals |-> {FromBE(<<1, 2, 3, 4, 5, 6, 7, 8>>), AllOnes(64, 64)}],
       [tys |-> Forms("i64", "BE<i64>", "LE<i64>"),
        vals |-> {FromBE(<<255, 2, 3, 4, 5, 6, 7, 8>>), MinInt(64)}],
       [tys |-> Forms("u128", "BE<u128>", "LE<u128>"),
        vals |-> {FromBE(<<1, 2, 3, 4, 5, 6, 7, 8, 9, 10, 11, 12, 13, 14, 15, 16>>),
                  AllOnes(128, 128)}],
       [tys |-> Forms("i128", "BE<i128>", "LE<i128>"),
        vals |-> {FromBE(<<255, 2, 3, 4, 5, 6, 7, 8, 9, 10, 11, 12, 13, 14, 15, 16>>),
                  MinInt(128)}],
       [tys |-> <<SocketAddrT>>,
        vals |-> {SocketAddrV4(<<127, 0, 0, 1>>, Bits(19132, 16)),
                  SocketAddrV4(<<255, 255, 255, 255>>, AllOnes(16, 16)),
                  SocketAddrV6(<<0, 0, 0, 0, 0, 0, 0, 0, 0, 0, 255, 255, 127, 0, 0, 1>>,
                               Bits(19132, 16), Bits(0, 32), Bits(0, 32)),
                  SocketAddrV6(<<32, 1, 13, 184, 5, 6, 7, 8, 9, 10, 11, 12, 13, 14, 15, 16>>,
                               Bits(258, 16), FromBE(<<1, 2, 3, 4>>),
                               FromBE(<<5, 6, 7, 8>>))}] >>

\* The types read over arbitrary slices.
SliceTypes ==
    <<Prim("u24"), Prim("BE<u24>"), Prim("LE<u24>"),
      Prim("i24"), Prim("BE<i24>"), Prim("LE<i24>"), SocketAddrT>>

\* The longest slice, and the bytes slices are made of: the tags 4 and 6
\* and their neighbours, and the bytes around the sign bit.
MaxValueWireLen == 3

ValueWireAlpha == {0, 4, 5, 6, 127, 128, 255}

\* The seven bytes of 127.0.0.1:19132 with another tag, and cut short.
TaggedWires ==
    {<<tag, 127, 0, 0, 1, 74, 188>> : tag \in {0, 3, 4, 5, 6, 7, 255}}
    \cup {<<4, 127, 0, 0, 1, 74>>}

ValueWires(max) == SeqsUpTo(ValueWireAlpha, max) \cup TaggedWires

InitValue ==
    /\ \/ \E i \in DOMAIN Codecs : \E j \in DOMAIN Codecs[i].tys : \E x \in Codecs[i].vals :
             /\ rec = [name |-> "value", S |-> Codecs[i].tys[j], v |-> x]
             /\ rbuf = <<>>
       \/ \E j \in DOMAIN SliceTypes : \E bytes \in ValueWires(MaxValueWireLen) :
             /\ rec = [name |-> "bytes", S |-> SliceTypes[j], v |-> <<>>]
             /\ rbuf = bytes
    /\ phase = "new"
    /\ wbuf = <<>>
    /\ nw = 0
    /\ pos = 0
    /\ last = NoOp("")
    /\ wlog = <<>>
    /\ wire = NoWire
    /\ dec = NoDec
    /\ gen = NoGen

\* T::new(x), T::from(x), or the SocketAddr itself
New ==
    /\ phase = "new" /\ rec.name = "value"
    /\ \E r \in {IF rec.S.k = "prim" THEN from(rec.S.name, rec.v) ELSE Made(rec.v)} :
          last' = [op |-> "new", arg |-> rec.v, kind |-> r.kind, err |-> "",
                   val |-> r.val, pos0 |-> 0, len0 |-> 0]
    /\ phase' = "writer"
    /\ UNCHANGED <<wbuf, nw, rbuf, pos, wlog, structVars>>

\* value.write_to_bytes()
EncodeValue ==
    /\ phase = "writer" /\ last.op = "new" /\ last.kind = "ok"
    /\ wire.kind = "none"
    /\ wire' = write_to_bytes(rec.S, last.val)
    /\ wbuf' = wire'.buf
    /\ UNCHANGED <<phase, nw, rbuf, pos, last, wlog, rec, dec, gen>>

\* T::read(&mut ByteReader::from(bytes)) over the bytes written
DecodeValue ==
    /\ phase = "writer" /\ wire.kind = "ok"
    /\ rbuf' = wire.buf
    /\ dec' = Reader_read(rec.S, wire.buf, 0)
    /\ pos' = dec'.pos
    /\ phase' = "reader"
    /\ UNCHANGED <<wbuf, nw, last, wlog, rec, wire, gen>>

\* T::read(&mut ByteReader::from(bytes)) over a slice
DecodeBytes ==
    /\ phase = "new" /\ rec.name = "bytes"
    /\ dec' = Reader_read(rec.S, rbuf, 0)
    /\ pos' = dec'.pos
    /\ phase' = "reader"
    /\ UNCHANGED <<wbuf, nw, rbuf, last, wlog, rec, wire, gen>>

NextValue ==
    \/ New
    \/ EncodeValue
    \/ DecodeValue
    \/ DecodeBytes

SpecValue == InitValue /\ [][NextValue]_vars

-----------------------------------------------------------------------------
(* Properties *)

\* The bytes the last write appended, and the bytes that remained before the
\* last read.
LastBytes == SubSeq(wbuf, last.len0 + 1, Len(wbuf))

Before == SubSeq(rbuf, last.pos0 + 1, Len(rbuf))

\* The first n of the bytes s exist and all have the continuation bit set.
Continued(s, n) == Len(s) >= n /\ \A i \in 1..n : s[i] >= 128

\* The number of bits of x up to its highest set bit, the 7-bit groups that many
\* bits fill (at least one), and the g-th group as a number.
RECURSIVE HighBit(_, _)
HighBit(x, i) == IF i = 0 \/ x[i] = 1 THEN i ELSE HighBit(x, i - 1)

BitLength(x) == HighBit(x, Len(x))

Groups(x) == IF BitLength(x) = 0 THEN 1 ELSE (BitLength(x) + 6) \div 7

BitOf(x, i) == IF i <= Len(x) THEN x[i] ELSE 0

Group(x, g) ==
    BitOf(x, 7 * g - 6) + 2 * BitOf(x, 7 * g - 5) + 4 * BitOf(x, 7 * g - 4)
    + 8 * BitOf(x, 7 * g - 3) + 16 * BitOf(x, 7 * g - 2) + 32 * BitOf(x, 7 * g - 1)
    + 64 * BitOf(x, 7 * g)

\* The canonical LEB128 bytes of x.
Leb128(x) ==
    LET n == Groups(x) IN [g \in 1..n |-> Group(x, g) + IF g < n THEN 128 ELSE 0]

\* The zigzag value of the signed n at its width: 2n for n >= 0, and
\* -2n - 1 = 2(-n - 1) + 1 for n < 0, where -n - 1 is the complement of n.
ZigZag(n) ==
    IF n[Len(n)] = 0
    THEN <<0>> \o SubSeq(n, 1, Len(n) - 1)
    ELSE <<1>> \o SubSeq(BitNot(n), 1, Len(n) - 1)

\* The operations C1 names.
C1Ops ==
    {"peek_ahead", "read_uint", "read_uint_le", "read_int", "read_int_le",
     "read_var_u32", "read_var_i32", "read_var_u64", "read_var_i64",
     "read_string", "read_option", "read_sized_slice",
     "read_u24", "read_u24_le", "read_i24", "read_i24_le", "read"}
    \cup DOMAIN read_fn_size

\* C1: no ByteReader operation panics: whatever the buffer, the position, the
\* argument and the operations before it, each of peek_ahead, the fixed-width
\* reads, read_uint, the varint reads, read_string, read_option and
\* read_sized_slice returns a value or an error.
C1_NoPanic == (phase = "reader" /\ last.op \in C1Ops) => last.kind # "panic"

\* The remaining bytes are fewer than an unsigned varint's most (5 for
\* read_var_u32, 10 for read_var_u64) and all have the continuation bit set.
Truncated ==
    /\ last.op \in {"read_var_u32", "read_var_u64"}
    /\ Len(Before) < (IF last.op = "read_var_u32" THEN 5 ELSE 10)
    /\ Continued(Before, Len(Before))

\* C2: read_var_u32 / read_var_u64 on a reader whose remaining bytes all have
\* the continuation bit set and are fewer than 5 / 10 (none remaining
\* included) fails with UnexpectedEof and leaves the position where it was.
C2_TruncatedVarintEof ==
    Truncated => last.kind = "err" /\ last.err = "UnexpectedEof" /\ pos = last.pos0

\* The number of bytes a fixed-width read reads.
FixedWidth ==
    CASE last.op \in DOMAIN read_fn_size -> read_fn_size[last.op]
      [] last.op \in {"read_u24", "read_u24_le", "read_i24", "read_i24_le"} -> 3
      [] last.op = "read" -> last.arg
      [] OTHER -> 0

IsFixedWidth ==
    /\ phase = "reader"
    /\ last.op \in DOMAIN read_fn_size
                   \cup {"read_u24", "read_u24_le", "read_i24", "read_i24_le", "read"}

\* The value of a read_fn! method or of read(buffer) is made of the n bytes at
\* the position: most significant first, least significant first for the
\* little-endian forms, as they are for read(buffer).
FixedValue ==
    CASE last.op = "read" -> last.val = SubSeq(Before, 1, FixedWidth)
      [] last.op \in read_fn_le -> BytesLE(last.val) = SubSeq(Before, 1, FixedWidth)
      [] last.op \in DOMAIN read_fn_size -> BytesBE(last.val) = SubSeq(Before, 1, FixedWidth)
      [] OTHER -> Len(last.val) = 32

\* C3: a fixed-width read of n bytes fails with UnexpectedEof and leaves the
\* position unchanged when fewer than n bytes remain, and otherwise returns
\* the value and advances the position by exactly n.
C3_FixedWidthRead ==
    IsFixedWidth =>
        IF Len(Before) < FixedWidth
        THEN last.kind = "err" /\ last.err = "UnexpectedEof" /\ pos = last.pos0
        ELSE last.kind = "ok" /\ pos = last.pos0 + FixedWidth /\ FixedValue

\* A read of 4 bytes, after an earlier read, that fails with 1 to 3 bytes left.
C3_Witness ==
    /\ IsFixedWidth /\ last.op = "read_u32_le"
    /\ last.pos0 > 0 /\ Len(Before) \in 1..3
    /\ last.kind = "err" /\ pos = last.pos0

\* C4: whenever a ByteReader decode returns an error the position is the one
\* before the call; so for read_string with a truncated prefix or a short
\* payload, read_sized_slice, read_option, and Vec<T> with a failing element.
C4_ErrorLeavesPosition == (phase = "reader" /\ last.kind = "err") => pos = last.pos0

\* C5: read_var_u32 over the bytes write_var_u32(v) wrote returns v and
\* advances by exactly the number of bytes written, whatever follows them;
\* and so for read_var_u64 and write_var_u64.
C5_VarintRoundTrip ==
    (phase = "reader" /\ last.op \in {"read_var_u32", "read_var_u64"}) =>
        /\ last.kind = "ok"
        /\ last.val = last.arg.val
        /\ pos = last.pos0 + last.arg.n

\* 2^32 - 1 read back from its five bytes with further bytes after them.
C5_Witness ==
    /\ phase = "reader" /\ last.op = "read_var_u32"
    /\ last.arg.val = AllOnes(32, 32) /\ last.val = AllOnes(32, 32)
    /\ last.arg.n = 5 /\ pos < Len(rbuf)

\* C6: write_var_i32(n) emits the unsigned varint of the zigzag value of n
\* (2n for n >= 0, -2n - 1 for n < 0: -1 is [1], -2147483647 is
\* [253,255,255,255,15]) and read_var_i32 over those bytes returns n, i32::MIN
\* included; and so for the 64-bit forms.
C6_ZigZag ==
    /\ (phase = "writer" /\ last.op \in {"write_var_i32", "write_var_i64"}) =>
          /\ last.kind = "ok"
          /\ LastBytes = Leb128(ZigZag(last.arg))
          /\ last.arg = SBits(-1, 32) => LastBytes = <<1>>
          /\ last.arg = SBits(-2147483647, 32) => LastBytes = <<253, 255, 255, 255, 15>>
          /\ \A n \in {-12, 63, 64, -64} :
                last.arg = SBits(n, 32) =>
                    LastBytes = Leb128(Bits(IF n >= 0 THEN 2 * n ELSE -2 * n - 1, 32))
    /\ (phase = "reader" /\ last.op \in {"read_var_i32", "read_var_i64"}) =>
          /\ last.kind = "ok"
          /\ last.val = last.arg.val
          /\ pos = last.pos0 + last.arg.n

\* i32::MIN read back from the bytes write_var_i32 wrote for it.
C6_Witness ==
    /\ phase = "reader" /\ last.op = "read_var_i32"
    /\ last.arg.val = MinInt(32) /\ last.val = MinInt(32)
    /\ SubSeq(rbuf, last.pos0 + 1, pos) = <<255, 255, 255, 255, 15>>

\* C7: write_var_u32 and write_var_u64 succeed for every value and emit
\* canonical LEB128: 7 payload bits a byte, least significant group first, the
\* continuation bit on every byte but the last, max(1, ceil(bitlength / 7))
\* bytes, so at most 5 for a u32 and 10 for a u64 (127 is 1 byte, 128 is 2,
\* 2147483647 is [255,255,255,255,7]).
C7_CanonicalLeb128 ==
    (phase = "writer" /\ last.op \in {"write_var_u32", "write_var_u64"}) =>
        /\ last.kind = "ok"
        /\ Len(LastBytes) = Groups(last.arg)
        /\ Len(LastBytes) <= (IF last.op = "write_var_u32" THEN 5 ELSE 10)
        /\ \A g \in 1..Len(LastBytes) :
              /\ LastBytes[g] % 128 = Group(last.arg, g)
              /\ LastBytes[g] >= 128 <=> g < Len(LastBytes)
        /\ last.arg = Bits(127, 32) => LastBytes = <<127>>
        /\ last.arg = Bits(128, 32) => LastBytes = <<128, 1>>
        /\ last.arg = Bits(2147483647, 32) => LastBytes = <<255, 255, 255, 255, 7>>

\* 2^64 - 1 written in ten bytes after an earlier write.
C7_Witness ==
    /\ phase = "writer" /\ last.op = "write_var_u64" /\ last.kind = "ok"
    /\ last.arg = AllOnes(64, 64) /\ Len(LastBytes) = 10 /\ last.len0 > 0

\* C8: when the first 5 remaining bytes (10 for the 64-bit forms) all have the
\* continuation bit set, the varint decode fails with the overflow error, not
\* UnexpectedEof, whatever follows, and the position is unchanged.
C8_VarintOverflow ==
    /\ (phase = "reader" /\ last.op \in {"read_var_u32", "read_var_i32"}
            /\ Continued(Before, 5)) =>
          last.kind = "err" /\ last.err = "Other" /\ pos = last.pos0
    /\ (phase = "reader" /\ last.op \in {"read_var_u64", "read_var_i64"}
            /\ Continued(Before, 10)) =>
          last.kind = "err" /\ last.err = "Other" /\ pos = last.pos0

\* read_var_u64 over ten continued bytes with a byte that ends them after.
C8_Witness ==
    /\ phase = "reader" /\ last.op = "read_var_u64"
    /\ Continued(Before, 10) /\ Len(Before) > 10 /\ Before[11] < 128
    /\ last.kind = "err" /\ last.err = "Other" /\ pos = last.pos0

\* Every skipped field of the record holds its type's default.
SkippedDefault ==
    \A i \in 1..Len(rec.S) :
        rec.S[i].attr = "skip" => rec.v[rec.S[i].name] = Default(rec.S[i].ty)

\* C9: for a derived struct and a value whose encoding succeeds and whose
\* skipped fields hold their default, decoding the bytes written returns a
\* value equal to it and consumes all of the bytes.
C9_StructRoundTrip ==
    (dec.kind # "none" /\ SkippedDefault) =>
        dec.kind = "ok" /\ dec.val = rec.v /\ dec.pos = Len(wire.buf)

\* The byte of a u8.
U8(x) == Nat31(x)

\* C10: encoding b, marked satisfy(self.a == 10), between the u8 fields a and
\* c: with a = 10 and b = Some(v) exactly v's encoding is written, without a
\* presence byte; with a = 10 and b = None the encode fails with an error;
\* with a # 10 nothing is written for b, be it Some or None.
C10_SatisfyEncode ==
    (rec.name = "ABC" /\ wire.kind # "none") =>
        IF U8(rec.v.a) = 10
        THEN IF rec.v.b # <<>>
             THEN wire = WOk(<<10, U8(rec.v.b[1]), U8(rec.v.c)>>)
             ELSE wire.kind = "err"
        ELSE wire = WOk(<<U8(rec.v.a), U8(rec.v.c)>>)

\* a = 4 and b = Some(99) written as [4, c].
C10_Witness ==
    /\ rec.name = "ABC" /\ wire.kind = "ok"
    /\ U8(rec.v.a) = 4 /\ rec.v.b = <<Bits(99, 8)>>
    /\ wire.buf = <<4, U8(rec.v.c)>>

\* C11: decoding b, marked satisfy(self.a == 10), after the u8 field a: with
\* a = 10 the inner u8 is decoded and b is Some of it, and when that decode
\* fails the whole decode fails; with a # 10, b is None and takes no byte.
\* In ABC the u8 field c is decoded right after.
C11_SatisfyDecode ==
    /\ (rec.name = "AB" /\ dec.kind # "none" /\ Len(rbuf) >= 1) =>
          IF rbuf[1] = 10
          THEN IF Len(rbuf) >= 2
               THEN dec = Ok([a |-> Bits(10, 8), b |-> <<Bits(rbuf[2], 8)>>], 2)
               ELSE dec.kind = "err" /\ dec.err = "UnexpectedEof"
          ELSE dec = Ok([a |-> Bits(rbuf[1], 8), b |-> <<>>], 1)
    /\ (rec.name = "ABC" /\ dec.kind # "none" /\ Len(rbuf) >= 1) =>
          IF rbuf[1] = 10
          THEN IF Len(rbuf) >= 3
               THEN dec = Ok([a |-> Bits(10, 8), b |-> <<Bits(rbuf[2], 8)>>,
                              c |-> Bits(rbuf[3], 8)], 3)
               ELSE dec.kind = "err" /\ dec.err = "UnexpectedEof"
          ELSE IF Len(rbuf) >= 2
               THEN dec = Ok([a |-> Bits(rbuf[1], 8), b |-> <<>>,
                              c |-> Bits(rbuf[2], 8)], 2)
               ELSE dec.kind = "err" /\ dec.err = "UnexpectedEof"

\* a = 10 with no byte left for b: the decode of the record fails.
C11_Witness ==
    /\ rec.name = "AB" /\ rbuf = <<10>>
    /\ dec.kind = "err" /\ dec.err = "UnexpectedEof"

\* What encoding a field, marked require(ref) or if_present(ref), between the
\* fields before and after it does when it returns: with ref Some the inner
\* value is written as it is, with ref None require fails and if_present
\* writes nothing.
DirectiveEncodeReturns ==
    /\ (rec.name = "Required" /\ wire.kind \in {"ok", "err"}) =>
          IF rec.v.b # <<>>
          THEN rec.v.c # <<>> /\
               wire = WOk(<<U8(rec.v.a), 1, U8(rec.v.b[1]), U8(rec.v.c[1])>>)
          ELSE wire.kind = "err" /\ wire.err = "InvalidData"
    /\ (rec.name = "IfPresent" /\ wire.kind \in {"ok", "err"}) =>
          IF rec.v.a # <<>>
          THEN rec.v.b # <<>> /\
               wire = WOk(<<1, U8(rec.v.a[1]), U8(rec.v.b[1]), U8(rec.v.c)>>)
          ELSE wire = WOk(<<0, U8(rec.v.c)>>)

\* C12: encoding a field marked require(ref) or if_present(ref) returns a
\* result and never aborts, whichever of the field and ref are Some or None:
\* with ref Some the inner value is written without a presence byte, with ref
\* None require returns an error and if_present writes nothing and succeeds.
C12_DirectiveEncode ==
    (rec.name \in {"Required", "IfPresent"} /\ wire.kind # "none") =>
        /\ wire.kind # "panic"
        /\ DirectiveEncodeReturns

\* Decoding a: u8, b: Option<u8> from the slice leaves the fields of the
\* record that follow to decode.
DecodedAB == Len(rbuf) >= 2 /\ (rbuf[2] # 0 => Len(rbuf) >= 3)

\* The b decoded, the bytes a and b take, and the c decoded from the byte that
\* follows them: Some of it, or None when the slice ends there.
DecodedB == IF rbuf[2] # 0 THEN <<Bits(rbuf[3], 8)>> ELSE <<>>

LenAB == IF rbuf[2] # 0 THEN 3 ELSE 2

DecodedC ==
    IF Len(rbuf) > LenAB
    THEN Ok([a |-> Bits(rbuf[1], 8), b |-> DecodedB, c |-> <<Bits(rbuf[LenAB + 1], 8)>>],
            LenAB + 1)
    ELSE Ok([a |-> Bits(rbuf[1], 8), b |-> DecodedB, c |-> <<>>], LenAB)

\* C13 as stated: decoding c, marked require(b) or if_present(b), never makes
\* the record decode fail: the inner u8 is decoded where a and b end, c is Some
\* of it when that succeeds and None when it fails, and the two directives
\* behave identically.
C13_DirectiveDecodeNeverFails ==
    (rec.name \in {"Required", "Present"} /\ dec.kind # "none" /\ DecodedAB) =>
        dec = DecodedC

\* C13, amended: decoding c marked if_present(b) never makes the record
\* decode fail: the inner u8 is decoded where a and b end, c is Some of it when
\* that succeeds and None when it fails.  Decoding c marked require(b) does
\* the same when b was decoded as Some, and fails the record decode with
\* InvalidData, reading nothing, when b was decoded as None.
C13_DirectiveDecode ==
    (rec.name \in {"Required", "Present"} /\ dec.kind # "none" /\ DecodedAB) =>
        IF rec.name = "Required" /\ DecodedB = <<>>
        THEN dec = Err("InvalidData", LenAB)
        ELSE dec = DecodedC

\* require(b) with b decoded as None and a byte left for c.
C13_Witness ==
    /\ rec.name = "Required" /\ Len(rbuf) = 3 /\ rbuf[2] = 0
    /\ dec = Err("InvalidData", 2)

\* C14: a field marked skip contributes no bytes to the encoding and consumes
\* none on decode, and after a decode it holds its type's default, whatever
\* it held in the record encoded: { a, #[skip] b: Option<u8>, c } is written
\* as [a, c] and read back with b = None, and (bool, #[skip] Option<u8>,
\* #[skip] Option<u8>) is written as the bool's byte and read back with None
\* twice.
C14_Skip ==
    /\ (rec.name = "Skipped" /\ wire.kind # "none") =>
          wire = WOk(<<U8(rec.v.a), U8(rec.v.c)>>)
    /\ (rec.name = "Skipped" /\ dec.kind # "none") =>
          dec = Ok([a |-> rec.v.a, b |-> <<>>, c |-> rec.v.c], 2)
    /\ (rec.name = "SpecialStruct" /\ wire.kind # "none") =>
          wire = WOk(rec.v["0"])
    /\ (rec.name = "SpecialStruct" /\ dec.kind # "none") =>
          dec = Ok(("0" :> rec.v["0"]) @@ ("1" :> <<>>) @@ ("2" :> <<>>), 1)

\* A record whose skipped b is Some(9), decoded with b = None.
C14_Witness ==
    /\ rec.name = "Skipped" /\ rec.v.b = <<Bits(9, 8)>>
    /\ wire.kind = "ok" /\ Len(wire.buf) = 2
    /\ dec.kind = "ok" /\ dec.val.b = <<>>

\* The encodings of the fields of the record from the i-th on, each written
\* alone, one after another.
RECURSIVE FieldsFrom(_)
FieldsFrom(i) ==
    IF i > Len(rec.S) THEN <<>>
    ELSE field_write(rec.S[i], rec.v, <<>>).buf \o FieldsFrom(i + 1)

\* Every field of the record is without attribute.
AllPlain == \A i \in 1..Len(rec.S) : rec.S[i].attr = "none"

\* C15: the encoding of a derived struct is the concatenation of its fields'
\* encodings in declaration order, and decoding reads the fields in that
\* order, for named and unnamed structs alike: MyStruct { true, 10000, 90 } is
\* [1, 0, 39, 16, 90, 0, 0] and Test(10, 258) is [10, 1, 2], and both are read
\* back as they were.
C15_DeclarationOrder ==
    /\ wire.kind = "ok" => wire.buf = FieldsFrom(1)
    /\ (AllPlain /\ wire.kind # "none") => wire.kind = "ok"
    /\ (AllPlain /\ dec.kind # "none") => dec = Ok(rec.v, Len(wire.buf))
    /\ (rec.name = "MyStruct" /\ wire.kind # "none"
            /\ rec.v = [a_value_before |-> <<1>>, test |-> Bits(10000, 32),
                        test_le |-> Bits(90, 32)]) =>
          wire.buf = <<1, 0, 39, 16, 90, 0, 0>>
    /\ (rec.name = "Test" /\ wire.kind # "none"
            /\ rec.v = ("0" :> Bits(10, 8)) @@ ("1" :> Bits(258, 16))) =>
          wire.buf = <<10, 1, 2>>

\* Test(10, 258) written as [10, 1, 2] and read back.
C15_Witness ==
    /\ rec.name = "Test" /\ wire.buf = <<10, 1, 2>>
    /\ dec.kind = "ok" /\ dec.val["0"] = Bits(10, 8) /\ dec.val["1"] = Bits(258, 16)

\* The discriminants the variants of the enum of the state are written with.
Discriminants == [i \in 1..Len(gen.variants) |-> gen.variants[i].discriminant]

\* The bytes of the u8 arguments of the value of the state.
ArgBytes == [i \in 1..Len(rec.v.args) |-> U8(rec.v.args[i])]

\* C16: each variant's discriminant is its explicit literal when one is given,
\* otherwise the previous variant's plus 1, or 0 for the first; encoding a
\* variant writes the discriminant as one value of the repr type and then the
\* payload fields in order, a unit variant only the discriminant.  TestPacket
\* has 0, 1, 2 and B(1, 2) is [1, 1, 2]; PacketField { Cats = 10, Dogs = 12,
\* Apple } has 10, 12, 13; with repr u16 the discriminant takes two bytes.
C16_EnumEncode ==
    /\ rec.name = "TestPacket" => Discriminants = <<0, 1, 2>>
    /\ rec.name = "PacketField" => Discriminants = <<10, 12, 13>>
    /\ rec.name = "Wide" => Discriminants = <<258, 259>>
    /\ (rec.name = "TestPacket" /\ wire.kind # "none") =>
          wire = WOk(<<CASE rec.v.variant = "A" -> 0
                         [] rec.v.variant = "B" -> 1
                         [] rec.v.variant = "C" -> 2>> \o ArgBytes)
    /\ (rec.name = "PacketField" /\ wire.kind # "none") =>
          wire = WOk(<<CASE rec.v.variant = "Cats" -> 10
                         [] rec.v.variant = "Dogs" -> 12
                         [] rec.v.variant = "Apple" -> 13>>)
    /\ (rec.name = "Wide" /\ wire.kind # "none") =>
          wire = WOk(IF rec.v.variant = "Lo" THEN <<1, 2>> \o ArgBytes ELSE <<1, 3>>)

\* TestPacket::B(1, 2) written as [1, 1, 2].
C16_Witness ==
    /\ rec.name = "TestPacket"
    /\ rec.v = [variant |-> "B", args |-> <<Bits(1, 8), Bits(2, 8)>>]
    /\ wire = WOk(<<1, 1, 2>>)

\* The u8 values of the slice from the i-th byte to the j-th.
U8s(i, j) == [k \in 1..(j - i + 1) |-> Bits(rbuf[i + k - 1], 8)]

\* C17: decoding a derived enum reads one value of the repr type; when it is
\* no variant's discriminant the decode fails with InvalidData, without
\* aborting; otherwise the variant with that discriminant is rebuilt from its
\* payload fields decoded in order.
C17_EnumDecode ==
    /\ (rec.name = "TestPacket" /\ dec.kind # "none" /\ Len(rbuf) >= 1) =>
          CASE rbuf[1] = 0 -> dec = Ok([variant |-> "A", args |-> <<>>], 1)
            [] rbuf[1] = 1 /\ Len(rbuf) >= 3 ->
                  dec = Ok([variant |-> "B", args |-> U8s(2, 3)], 3)
            [] rbuf[1] = 2 /\ Len(rbuf) >= 4 ->
                  dec = Ok([variant |-> "C", args |-> U8s(2, 4)], 4)
            [] rbuf[1] \in {1, 2} /\ Len(rbuf) < rbuf[1] + 2 ->
                  dec.kind = "err" /\ dec.err = "UnexpectedEof"
            [] OTHER -> dec = Err("InvalidData", 1)
    /\ (rec.name = "PacketField" /\ dec.kind # "none" /\ Len(rbuf) >= 1) =>
          CASE rbuf[1] = 13 -> dec = Ok([variant |-> "Apple", args |-> <<>>], 1)
            [] OTHER -> dec = Err("InvalidData", 1)
    /\ (rec.name = "Wide" /\ dec.kind # "none" /\ Len(rbuf) >= 2) =>
          CASE rbuf[1] = 1 /\ rbuf[2] = 2 /\ Len(rbuf) >= 3 ->
                  dec = Ok([variant |-> "Lo", args |-> U8s(3, 3)], 3)
            [] rbuf[1] = 1 /\ rbuf[2] = 2 /\ Len(rbuf) < 3 ->
                  dec.kind = "err" /\ dec.err = "UnexpectedEof"
            [] OTHER -> dec = Err("InvalidData", 2)
    /\ dec.kind # "panic"

\* [13, ..] read as a TestPacket: no variant has 13.
C17_Witness ==
    /\ rec.name = "TestPacket" /\ Len(rbuf) >= 1 /\ rbuf[1] = 13
    /\ dec = Err("InvalidData", 1)

Directed ==
    {i \in 1..Len(rec.S.list) :
        \E k \in 1..Len(rec.S.list[i].attrs) :
            rec.S.list[i].attrs[k].kind \in {"require", "if_present", "satisfy"}}

\* The directive of field i is on a field that is no Option, or shares the
\* field with another directive.
Misplaced(i) == rec.S.list[i].ty.k # "Option" \/ Len(rec.S.list[i].attrs) > 1

\* The directive of field i refers to no field declared before field i.
Unresolved(i) ==
    \E k \in 1..Len(rec.S.list[i].attrs) :
        /\ rec.S.list[i].attrs[k].kind \in {"require", "if_present", "satisfy"}
        /\ ~ \E j \in 1..(i - 1) : rec.S.list[j].name = rec.S.list[i].attrs[k].ref

\* Every misplaced directive is rejected.
MisplacedRejected ==
    (rec.name = "struct" /\ gen.kind # "none" /\ \E i \in Directed : Misplaced(i)) =>
        gen.kind = "error"

\* C19: a require, if_present or satisfy directive on a field that is no
\* Option, sharing its field with another directive, or referring to a sibling
\* that does not exist or is declared later than the field, is rejected by
\* the macro: no write and read are generated for the struct.
C19_DirectiveValidation ==
    (rec.name = "struct" /\ gen.kind # "none"
        /\ \E i \in Directed : Misplaced(i) \/ Unresolved(i)) =>
        gen.kind = "error"

\* C20: the macro rejects every struct with zero fields: the unit form, the
\* empty named form and the empty unnamed form.
C20_ZeroFields ==
    (rec.name = "struct" /\ gen.kind # "none" /\ rec.S.list = <<>>) =>
        gen.kind = "error"

\* C21: write_string(s) appends the varint of the byte length of s as a u32
\* and then exactly the bytes of s; read_string over those bytes
\* returns s and advances past exactly the bytes written,
\* whatever was written before and after them.
C21_StringRoundTrip ==
    /\ (phase = "writer" /\ last.op = "write_string") =>
           /\ last.kind = "ok"
           /\ LastBytes = Leb128(Bits(Len(last.arg), 32)) \o last.arg
    /\ (phase = "reader" /\ last.op = "read_string") =>
           /\ last.kind = "ok"
           /\ last.val = last.arg.val
           /\ pos = last.pos0 + last.arg.n
           /\ last.arg.n = Len(Leb128(Bits(Len(last.arg.val), 32))) + Len(last.arg.val)

\* The string of 128 bytes read back from its 130 bytes, written after
\* another value and with further bytes after it.
C21_Witness ==
    /\ phase = "reader" /\ last.op = "read_string"
    /\ last.val = Letters(128) /\ last.arg.n = 130
    /\ last.pos0 > 0 /\ pos = last.pos0 + 130

\* The bytes of the unsigned number x, most significant first, as numbers;
\* bit by bit.
BitsOfBytes(b) ==
    [i \in 1..(8 * Len(b)) |-> (b[Len(b) - ((i - 1) \div 8)] \div Pow2((i - 1) % 8)) % 2]

\* C22: a V4 address is written as 4, its 4 octets and its port most
\* significant byte first; a V6 address as 6, two reserved bytes, the port, the
\* flow, the 16 octets and the scope id, all most significant byte first;
\* reading what was written returns the address; and reading bytes
\* whose first is neither 4 nor 6 fails with InvalidData.
C22_SocketAddr ==
    /\ (rec.name = "value" /\ rec.S.k = "SocketAddr" /\ wire.kind # "none") =>
           /\ wire.kind = "ok"
           /\ IF rec.v.v = 4
              THEN /\ Len(wire.buf) = 7
                   /\ wire.buf[1] = 4
                   /\ SubSeq(wire.buf, 2, 5) = rec.v.ip
                   /\ BitsOfBytes(SubSeq(wire.buf, 6, 7)) = rec.v.port
              ELSE /\ Len(wire.buf) = 29
                   /\ wire.buf[1] = 6
                   /\ Len(SubSeq(wire.buf, 2, 3)) = 2
                   /\ BitsOfBytes(SubSeq(wire.buf, 4, 5)) = rec.v.port
                   /\ BitsOfBytes(SubSeq(wire.buf, 6, 9)) = rec.v.flowinfo
                   /\ SubSeq(wire.buf, 10, 25) = rec.v.ip
                   /\ BitsOfBytes(SubSeq(wire.buf, 26, 29)) = rec.v.scope_id
    /\ (rec.name = "value" /\ rec.S.k = "SocketAddr" /\ dec.kind # "none") =>
           dec.kind = "ok" /\ dec.val = rec.v /\ dec.pos = Len(wire.buf)
    /\ (rec.name = "bytes" /\ rec.S.k = "SocketAddr" /\ dec.kind # "none"
           /\ Len(rbuf) > 0 /\ rbuf[1] \notin {4, 6}) =>
           dec.kind = "err" /\ dec.err = "InvalidData"

\* A V6 address with a flow and a scope id read back from its 29 bytes.
C22_Witness ==
    /\ rec.name = "value" /\ rec.S.k = "SocketAddr" /\ rec.v.v = 6
    /\ rec.v.flowinfo # Bits(0, 32)
    /\ Len(wire.buf) = 29 /\ dec.kind = "ok" /\ dec.val = rec.v

\* The 32-bit host value x is in [0, 0xFFFFFF]: no bit above the 24th is set;
\* and in [-0x800000, 0x7FFFFF]: the bits above the 24th repeat the 24th.
InU24(x) == \A i \in 25..32 : x[i] = 0

InI24(x) == \A i \in 25..32 : x[i] = x[24]

Is24 == rec.S.k = "prim" /\ rec.S.name \in U24Types \cup I24Types

InRange24(x) == IF rec.S.name \in U24Types THEN InU24(x) ELSE InI24(x)

\* C23: making a u24 or an i24 (alone or in LE / BE) from a host integer
\* succeeds, with that value, exactly when the integer is in [0, 0xFFFFFF],
\* resp. [-0x800000, 0x7FFFFF], and panics otherwise; and every value a
\* decode of these types returns is in that range.
C23_Range24 ==
    /\ (rec.name = "value" /\ Is24 /\ last.op = "new") =>
           IF InRange24(rec.v)
           THEN last.kind = "ok" /\ last.val = rec.v
           ELSE last.kind = "panic"
    /\ (Is24 /\ dec.kind = "ok") => Len(dec.val) = 32 /\ InRange24(dec.val)

\* An i24 made from -0x800000 and read back from its three bytes.
C23_Witness ==
    /\ rec.name = "value" /\ Is24 /\ rec.S.name = "i24"
    /\ rec.v = SBits(-8388608, 32)
    /\ last.op = "new" /\ last.kind = "ok"
    /\ dec.kind = "ok" /\ dec.val = rec.v

\* The integer types of Codecs, the place of rec.S among them, and the bytes
\* its encoding takes.
IsInt == rec.name = "value" /\ rec.S.k = "prim"

CodecOf == CHOOSE i \in DOMAIN Codecs : \E j \in DOMAIN Codecs[i].tys : Codecs[i].tys[j] = rec.S

WidthOf == <<2, 2, 3, 3, 4, 4, 8, 8, 16, 16>>[CodecOf]

IsLE == rec.S = Codecs[CodecOf].tys[3]

Reversed(s) == [i \in 1..Len(s) |-> s[Len(s) + 1 - i]]

\* The low n bits of x.
LowBits(x, n) == [i \in 1..n |-> x[i]]

\* C24: an integer of 2, 3 (u24, i24), 4, 8 or 16 bytes, alone or in BE,
\* is written as exactly that many bytes, most significant first; in LE as
\* the same bytes in reverse order; and reading the bytes written returns
\* the value, for negative i24 values too.
C24_Endian ==
    /\ (IsInt /\ wire.kind # "none") =>
           /\ wire.kind = "ok"
           /\ Len(wire.buf) = WidthOf
           /\ BitsOfBytes(IF IsLE THEN Reversed(wire.buf) ELSE wire.buf)
                 = LowBits(last.val, 8 * WidthOf)
    /\ (IsInt /\ dec.kind # "none") =>
           dec.kind = "ok" /\ dec.val = last.val /\ dec.pos = WidthOf

\* -130300 as an LE<i24>, written as [4, 3, 254] and read back.
C24_Witness ==
    /\ IsInt /\ rec.S.name = "LE<i24>" /\ last.val = SBits(-130300, 32)
    /\ wire.buf = <<4, 3, 254>>
    /\ dec.kind = "ok" /\ dec.val = SBits(-130300, 32)

\* The bytes all the writes of wlog took together.
RECURSIVE BytesOf(_)
BytesOf(log) == IF log = <<>> THEN 0 ELSE Head(log).n + BytesOf(Tail(log))

\* C25: fixed-width integers, strings, varints and an Option written one
\* after another to one writer are read back in that order from one reader
\* over the bytes written: each read returns the value written and advances
\* by exactly the bytes that value took, what is left is exactly the
\* bytes of the values not yet read, and after the last read nothing is left.
C25_SequentialReads ==
    phase = "reader" =>
        /\ last.op # "ByteReader::from" =>
               /\ last.kind = "ok"
               /\ last.val = last.arg.val
               /\ pos = last.pos0 + last.arg.n
        /\ Len(rbuf) - pos = BytesOf(wlog)
        /\ wlog = <<>> => pos = Len(rbuf)

\* A string read back after a fixed-width integer, to the end of the bytes.
C25_Witness ==
    /\ phase = "reader" /\ last.op = "read_string" /\ last.kind = "ok"
    /\ last.pos0 = 2 /\ last.val = <<195, 169, 33>>
    /\ wlog = <<>> /\ pos = Len(rbuf) /\ pos = 6

\* s is the beginning of t.
IsPrefix(s, t) == Len(s) <= Len(t) /\ SubSeq(t, 1, Len(s)) = s

\* C26: no step of a ByteWriter changes or removes bytes already written:
\* the content before the step is the beginning of the content after it.
C26_AppendOnly ==
    [][(phase = "writer" /\ phase' = "writer") => IsPrefix(wbuf, wbuf')]_vars

\* C26 as amended: every write method leaves the bytes already written in
\* place and only adds after them, also when it fails; clear() alone
\* removes bytes, and it removes them all.
C26_AppendOnlyUntilClear ==
    [][(phase = "writer" /\ phase' = "writer") =>
          IF last'.op = "clear"
          THEN wbuf' = <<>> /\ wbuf # <<>>
          ELSE IsPrefix(wbuf, wbuf') /\ Len(wbuf) = last'.len0]_vars

\* A second write has added bytes after those of the first.
C26_Witness ==
    /\ phase = "writer" /\ nw = 2 /\ last.op = "write_u8"
    /\ last.len0 > 0 /\ Len(wbuf) = last.len0 + 1

\* The payload fields of the i-th variant of the enum given to the macro that
\* are marked skip, and the types of those that are not.
Skip == <<IoAttr("skip", "", <<>>)>>

PayloadSkipped(i) ==
    {j \in 1..Len(rec.S.variants[i].list) : rec.S.variants[i].list[j].attrs = Skip}

RECURSIVE Unskipped(_, _)
Unskipped(i, j) ==
    IF j > Len(rec.S.variants[i].list) THEN <<>>
    ELSE (IF j \in PayloadSkipped(i) THEN <<>> ELSE <<rec.S.variants[i].list[j].ty>>)
         \o Unskipped(i, j + 1)

\* The enum has a repr type, literal or no discriminants, unit and tuple
\* variants only, and no attribute but skip.
SkipOnly ==
    /\ rec.S.repr # <<>> /\ is_repr(rec.S.repr[1])
    /\ \A i \in 1..Len(rec.S.variants) :
          /\ rec.S.variants[i].discriminant.k # "expr"
          /\ rec.S.variants[i].fields # "named"
          /\ rec.S.variants[i].attrs \in {<<>>, Skip}
          /\ \A j \in 1..Len(rec.S.variants[i].list) :
                rec.S.variants[i].list[j].attrs \in {<<>>, Skip}

\* C27: an enum with skip on a positional payload field of a variant
\* compiles, and the code generated for the variant writes and reads the
\* payload fields that are not skipped, and only those.
C27_PayloadSkip ==
    (rec.name = "enum" /\ gen.kind # "none" /\ SkipOnly
       /\ \E i \in 1..Len(rec.S.variants) : PayloadSkipped(i) # {}) =>
        /\ gen.kind = "impl"
        /\ \A i \in 1..Len(rec.S.variants) : gen.variants[i].args = Unskipped(i, 1)

\* C28: read_string takes its length prefix as read_var_u32 at the same
\* position does: where read_var_u32 returns a length from k bytes,
\* read_string returns the bytes k+1 .. k+length when that many remain and
\* fails when they do not, and where read_var_u32 does not return a length,
\* read_string ends the same way; so for five continuation bytes.
C28_StringPrefixAsVarU32 ==
    (phase = "reader" /\ last.op = "read_string") =>
        LET v == read_var_u32(rbuf, last.pos0)
        IN  IF v.kind # "ok" THEN last.kind = v.kind
            ELSE IF Fits31(v.val) /\ v.pos + Nat31(v.val) <= Len(rbuf)
            THEN /\ last.kind = "ok"
                 /\ last.val = SubSeq(rbuf, v.pos + 1, v.pos + Nat31(v.val))
                 /\ pos = v.pos + Nat31(v.val)
            ELSE last.kind = "err"

BoundBefore(i) == struct_read(SubSeq(rec.S, 1, i - 1), wire.buf, 0, 1, NoFields)

\* C29: for a record whose encoding succeeds, the satisfy predicate of every
\* field the decoder reaches has over the siblings decoded before it the truth
\* value it has over the record's fields, also where it mentions a sibling
\* marked skip.
C29_SatisfyAgrees ==
    dec.kind # "none" =>
        \A i \in 1..Len(rec.S) :
            (rec.S[i].attr = "satisfy" /\ BoundBefore(i).kind = "ok") =>
                (satisfy_expr(rec.S[i], BoundBefore(i).val)
                    <=> satisfy_expr(rec.S[i], rec.v))
====
